---- MODULE Spec2Model ----
(***************************************************************************)
(* A model of the FPL Discord bot (src/index.js and its earlier revision   *)
(* src/unnamed/part_000): the HTTP retrieval layer (getWithRetries), the   *)
(* rendering fallback chains (fetchRenderedHtml, fetchFplMundoArticle),    *)
(* the multi-section extractor (extractSectionsFromHtml), the standings    *)
(* normalizer (normalizeTeams), the preview picker                         *)
(* (selectDramaticMatchups), the price parsers and the two price pollers,  *)
(* the deadline reminders (scheduleAt, clearReminders,                     *)
(* scheduleDeadlineReminders), the recurring schedulers, msUntilNextDaily  *)
(* and the loop of scheduleDailyInTz, msUntilNext of scheduleAtLocalTimes, *)
(* rivalryMatches, refreshManagerDiscordMap, the price watchers called     *)
(* concurrently (postPredictedIfChanged, postConfirmedIfChanged), the      *)
(* previous-gameweek summaries (maybePostPrevGwSummaries), the publishing  *)
(* strategies (publishFromMundoPage, the mundo_publish command), the       *)
(* pagination loops (fetchFixtures, fetchFplH2HStandingsAllPages) and the  *)
(* re-arming of scheduleDeadlineReminders from gameweek to gameweek.  Each *)
(* component has its own specification over its own variables; the         *)
(* variables of the other components stay at their initial values.         *)
(***************************************************************************)
EXTENDS Integers, Sequences, FiniteSets, TLC

VARIABLES
  \* ---- getWithRetries (src/index.js 79-124) ----
  pc,            \* position in the call: "idle", "get", "sleep", "done"
  useFplWarmup,  \* the option of the same name
  attempt,       \* the loop counter
  cachedCookie,  \* the Cookie header harvested by the warm-up ("" = none)
  lastErr,       \* the variable lastErr
  caught,        \* the error e of the catch block that is sleeping
  gets,          \* number of GET requests sent to the target URL
  lastGet,       \* the most recent GET: its attempt, Cookie header, status
  warmups,       \* number of warm-up requests sent to the origin site
  lastWarm,      \* the most recent warm-up: the attempt it followed, its cookies
  sleeps,        \* number of sleeps
  lastSleep,     \* the most recent sleep: retry number, delay, Retry-After header
  outcome,       \* what the call gave its caller
  \* ---- fetchRenderedHtml (439-517), fetchFplMundoArticle (645-717) ----
  fn,            \* the function that is running
  rpc,           \* its position: "start", "headless", "plain", "proxy", "parse", "done"
  hasPuppeteer,  \* HAS_PUPPETEER
  puppeteerExtra,\* whether puppeteerExtra was loaded (else null)
  html,          \* fetchFplMundoArticle's variable html
  stages,        \* the stages run so far, in order, each with its result
  rOutcome,      \* what the function gave its caller
  bodyLen,       \* length of the body text of the draft fetchFplMundoArticle returned
  \* ---- extractSectionsFromHtml (525-618) ----
  spc,           \* "input" before the call, "done" after it
  page,          \* the parsed page: the child nodes of the root (<main> or <body>)
  maxSections,   \* MUNDO_MAX_SECTIONS, read from the environment at start
  sections,      \* the array the call returned
  \* ---- normalizeTeams (index.js 1324-1350, part_000 542-552) ----
  tpc,           \* "input", "once" (normalized), "twice" (normalized again)
  revision,      \* the revision of normalizeTeams that runs: "index" or "part_000"
  rows,          \* the raw rows
  teams,         \* normalizeTeams(rows)
  again,         \* normalizeTeams(teams)
  \* ---- selectDramaticMatchups (src/index.js 1353-1467) ----
  mpc,           \* "input" before the call, "done" after it
  standings,     \* the argument teams
  league,        \* the option league
  fixtures,      \* the option fixtures: absent, or an array
  rivalries,     \* the global RIVALRIES
  picks,         \* the array the call returned
  \* ---- toPriceFloat (2367-2373), parseNumberLikePrice (2575-2580) ----
  qpc,           \* "input" before the call, "done" after it
  priceFn,       \* the function called
  priceIn,       \* its argument
  priceOut,      \* the number it returned
  \* ---- fetchConfirmedPriceChanges (2707-2724), postConfirmedIfChanged (2807-2825) ----
  lastConfSig,   \* __LAST_CONF_SIG
  confPolls,     \* number of calls of postConfirmedIfChanged so far
  parsed,        \* the rows parseConfirmedTable gave the latest call
  chg,           \* what fetchConfirmedPriceChanges gave the latest call
  confSent,      \* whether the latest call called channel.send
  prevChg,       \* chg of the call before the latest
  prevConfSent,  \* confSent of the call before the latest
  \* ---- postPredictedIfChanged (2538-2562) ----
  lastPredSig,   \* __LAST_PRED_SIG
  predPolls,     \* number of calls of postPredictedIfChanged so far
  pred,          \* what fetchPredictedFromLiveFPL gave the latest call
  predSent,      \* whether the latest call called channel.send
  sigBefore,     \* __LAST_PRED_SIG when the latest call began
  \* ---- scheduleAt, clearReminders (index.js 1512-1518, 2247-2261; part_000 941-960) ----
  remRevision,   \* the revision of scheduleDeadlineReminders that runs: "index" or "part_000"
  rclock,        \* Date.now(), in seconds
  rticks,        \* number of times the clock has advanced
  capturedNow,   \* the constant now that part_000 takes before clearReminders()
  timers,        \* every timer scheduleAt has armed, in order of creation
  scheduledTimeouts, \* __scheduledTimeouts: indexes into timers
  lastCall,      \* the latest call of scheduleAt: its target, when it ran, whether it armed
  \* ---- scheduleWeeklyInTz, scheduleDailyInTz, scheduleAtLocalTimes (859-876, 891-906, 943-957) ----
  jobKind,       \* the scheduler that was called: "weekly", "daily" or "localTimes"
  jpc,           \* "idle" before the call, "armed" (timer pending), "running" (fn awaited), "stopped"
  pending,       \* number of timers of the job that are armed and have not fired
  jobMs,         \* the delay ms of the timer armed last, in minutes
  firings,       \* number of firings so far (counted up to MaxFirings)
  jobErrors,     \* number of "job error" lines logged (counted up to MaxFirings)
  lastSettle,    \* how the latest callback settled: "none", "resolved", "threw"
  \* ---- msUntilNextDaily (878-889) ----
  dpc,           \* "input" before the call, "done" after it
  serverZone,    \* the time zone of the process: "UTC", or "tz" (the target zone itself)
  transition,    \* the change of the target zone offset in the days modelled: "none", "spring", "fall"
  dNow,          \* the instant of the call (new Date()), in milliseconds
  dHour,         \* the argument hour
  dMinute,       \* the argument minute
  dMs,           \* the delay the call returned
  \* ---- scheduleDailyInTz (891-906) ----
  lpc,           \* "idle" before the call, "armed" (timer pending), "running" (fn awaited)
  lClock,        \* the instant now, in milliseconds
  lFireAt,       \* the instant at which the armed timer is due
  lFirings,      \* the instants at which the callback started, oldest first
  lSettles,      \* the instants at which the callback settled, oldest first
  lPending,      \* number of timers of the job that are armed
  lRunning,      \* number of invocations of the callback that have not settled
  lDurations,    \* how long a callback of this job can run
  \* ---- scheduleDeadlineReminders (2155-2282), clearReminders (1515-1518) ----
  dlPc,          \* the run in progress: "idle" (none), "channel", "event", "catchUp" (the await it is at)
  dlStarted,     \* what started the latest run: "none", "boot" (ClientReady) or "timer" (re-arm timer)
  dlRuns,        \* number of runs started so far
  dlEnd,         \* how the latest finished run ended: "none", "noChannel", "noEvent", "threw", "scheduled"
  dlTimers,      \* every timer the runs created, in order of creation
  dlTimeouts,    \* __scheduledTimeouts: indexes into dlTimers
  dlEscaped,     \* number of exceptions that left a timer callback uncaught
  \* ---- rivalryMatches (1207-1225) ----
  vpc,           \* "input" before the calls, "done" after them
  rivRows,       \* the global RIVALRIES
  rivLeague,     \* the argument league ("" = undefined)
  rivA,          \* the argument a of the first call
  rivB,          \* the argument b of the first call
  rivAB,         \* what rivalryMatches(league, a, b) returned
  rivBA,         \* what rivalryMatches(league, b, a) returned
  \* ---- scheduleAtLocalTimes.msUntilNext (909-941) ----
  xpc,           \* "input" before the call, "done" after it
  xTimes,        \* the argument times, each time as <<hour, minute>>
  xNow,          \* the instant of the call, in milliseconds
  xMs,           \* the delay the call returned
  mgrPc,            \* per refresh in flight: "idle" or "awaiting" (axios.get pending)
  MANAGER_MAP,      \* the cache: key (owner or team name) -> Discord id or null
  envMap,           \* the value parsed from MANAGER_DISCORD_MAP at start-up
  written,          \* the maps built by the successful refreshes, in write order
  mgrStarted,       \* number of refreshes started so far
  overlapped,       \* the last write was made while the other refresh was awaiting
  \* ---- concurrent calls of postPredictedIfChanged / postConfirmedIfChanged ----
  watcher,          \* the function the calls are of: "predicted" or "confirmed"
  wPc,              \* per call: "idle", "fetching", "sending", "done"
  wOut,             \* per call: "none", "error", "skipped", "sent", "failed"
  wLog,             \* the comparisons with the last signature, in the order made
  \* ---- maybePostPrevGwSummaries (src/index.js 1877-1965) ----
  requireFinalized, \* GW_SUMMARY_REQUIRE_FINALIZED
  lastSummaryGw,    \* __LAST_SUMMARY_POSTED_GW (0 = null)
  gpc,              \* position of the invocation: "idle", "channel", "bootstrap", "summarize", "send", "publish"
  sRuns,            \* number of invocations started
  season,           \* the season as the latest bootstrap answer showed it
  sGw,              \* prevGw of the invocation
  sLast,            \* __LAST_SUMMARY_POSTED_GW as the invocation found it
  sLeague,          \* index into LEAGUES of the loop
  leagueMsgs,       \* the leagues whose message this invocation has sent
  summarySent,      \* per league and gameweek: messages delivered to the channel
  articles,         \* per gameweek: articles accepted by the backend
  sLog,             \* what was sent or published, with the event and cache value it followed
  sEnd,             \* how the latest invocation ended
  \* ---- publishFromMundoPage (2069-2151), the mundo_publish command (3100-3182) ----
  pEntry,           \* "page" (publishFromMundoPage) or "command" (mundo_publish)
  pMode,            \* the option mode: "split", "list", "auto"
  pDryrun,          \* the option dryrun
  ppc,              \* position in the call
  pSections,        \* number of sections extractSectionsFromHtml found
  pLinks,           \* number of article links found
  pIdx,             \* index of the loop that is running
  pItems,           \* per link: what fetchFplMundoArticle gave ("art", "short", "error")
  posts,            \* the postNews calls made, oldest first: the strategy of each
  pUsed,            \* the strategy the call reported ("none" while running)
  \* ---- pagination loops: fetchFixtures (1667-1713), fetchFplH2HStandingsAllPages (1256-1269) ----
  pgFn,             \* the function called
  pgPc,             \* "loop" while a page is requested, "done" after the return
  pgPage,           \* the variable page (for the standings: MaxPagesCounted stands for that or more)
  pgRequests,       \* number of pages requested (capped like pgPage)
  pgOdd,            \* whether the number of pages requested is odd
  \* ---- scheduleDeadlineReminders over several gameweeks, with time (2155-2282) ----
  aClock,           \* Date.now(), whole seconds
  aPc,              \* "fetching", "catchup" inside a run; "idle" between runs
  aRuns,            \* number of runs started
  aEv,              \* the event the last run selected (0: none yet)
  aTimers,          \* every timer armed so far
  aSent,            \* the reminders sent, in order
  aSelected         \* the events selected by the runs, in order

retryVars == <<pc, useFplWarmup, attempt, cachedCookie, lastErr, caught, gets,
               lastGet, warmups, lastWarm, sleeps, lastSleep, outcome>>

renderVars == <<fn, rpc, hasPuppeteer, puppeteerExtra, html, stages, rOutcome, bodyLen>>

sectionVars == <<spc, page, maxSections, sections>>

teamVars == <<tpc, revision, rows, teams, again>>

matchVars == <<mpc, standings, league, fixtures, rivalries, picks>>

priceVars == <<qpc, priceFn, priceIn, priceOut>>

confVars == <<lastConfSig, confPolls, parsed, chg, confSent, prevChg, prevConfSent>>

predVars == <<lastPredSig, predPolls, pred, predSent, sigBefore>>

remVars == <<remRevision, rclock, rticks, capturedNow, timers, scheduledTimeouts, lastCall>>

jobVars == <<jobKind, jpc, pending, jobMs, firings, jobErrors, lastSettle>>

dailyVars == <<dpc, serverZone, transition, dNow, dHour, dMinute, dMs>>

loopVars == <<lpc, lClock, lFireAt, lFirings, lSettles, lPending, lRunning, lDurations>>

dlVars == <<dlPc, dlStarted, dlRuns, dlEnd, dlTimers, dlTimeouts, dlEscaped>>

rivVars == <<vpc, rivRows, rivLeague, rivA, rivB, rivAB, rivBA>>

timesVars == <<xpc, xTimes, xNow, xMs>>

mgrVars == <<mgrPc, MANAGER_MAP, envMap, written, mgrStarted, overlapped>>

watchVars == <<watcher, wPc, wOut, wLog>>

sumVars == <<requireFinalized, lastSummaryGw, gpc, sRuns, season, sGw, sLast, sLeague, leagueMsgs, summarySent, articles, sLog, sEnd>>

pubVars == <<pEntry, pMode, pDryrun, ppc, pSections, pLinks, pIdx, pItems, posts, pUsed>>

pageVars == <<pgFn, pgPc, pgPage, pgRequests, pgOdd>>

armVars == <<aClock, aPc, aRuns, aEv, aTimers, aSent, aSelected>>

vars == <<retryVars, renderVars, sectionVars, teamVars, matchVars, priceVars, confVars, predVars, remVars, jobVars, dailyVars, loopVars, dlVars, rivVars, timesVars, mgrVars, watchVars, sumVars, pubVars, pageVars, armVars>>

(***************************************************************************)
(*                        HTTP retrieval layer                             *)
(***************************************************************************)

RETRYABLE == {429, 500, 502, 503, 504}
MAX_RETRIES == 4
BASE_DELAY_MS == 350
JITTER_SPAN == 120

\* e?.response?.status of an error that carries no response (connection error,
\* timeout): undefined, which the code tests with `status ? ... : true`.
NoStatus == 0

\* The statuses a failed attempt is drawn from.
FailStatuses == {NoStatus, 400, 404, 429, 500, 502, 503, 504}

\* Math.floor(Math.random() * 120) is any integer of 0..119; these are drawn.
JitterSamples == {0, 57, JITTER_SPAN - 1}

\* A header value is a sequence of characters; an absent header has present = FALSE.
NoHeader == [present |-> FALSE, value |-> <<>>]
Header(v) == [present |-> TRUE, value |-> v]

\* The Retry-After headers a failed response is drawn from: none, the empty
\* string, "0", "2", "30", "-1" and an HTTP date.
RetryAfterSamples ==
  { NoHeader, Header(<<>>), Header(<<"0">>), Header(<<"2">>), Header(<<"3", "0">>),
    Header(<<"-", "1">>), Header(<<"W", "e", "d">>) }

\* The Cookie headers a warm-up can harvest: "" (no Set-Cookie, or the request
\* failed: warmUpFplAndGetCookies catches everything) or a cookie string.
WarmupResults == {"", "sid=1"}

Digit(c) ==
  CASE c = "0" -> 0 [] c = "1" -> 1 [] c = "2" -> 2 [] c = "3" -> 3 [] c = "4" -> 4
    [] c = "5" -> 5 [] c = "6" -> 6 [] c = "7" -> 7 [] c = "8" -> 8 [] c = "9" -> 9
    [] OTHER -> -1

RECURSIVE Digits(_)
\* The value of a non-empty sequence of decimal digits, -1 if a character is no digit.
Digits(s) ==
  IF Len(s) = 0 THEN 0
  ELSE LET hi == Digits(SubSeq(s, 1, Len(s) - 1))
           d  == Digit(s[Len(s)])
       IN  IF hi < 0 \/ d < 0 THEN -1 ELSE 10 * hi + d

\* Number(ra) on a string of characters: [nan |-> TRUE] for Number.isNaN.
\* Number("") is 0; a leading "-" negates.
Number(s) ==
  IF Len(s) = 0 THEN [nan |-> FALSE, n |-> 0]
  ELSE IF s[1] = "-"
       THEN LET m == IF Len(s) = 1 THEN -1 ELSE Digits(Tail(s))
            IN  IF m < 0 THEN [nan |-> TRUE, n |-> 0] ELSE [nan |-> FALSE, n |-> 0 - m]
       ELSE LET m == Digits(s)
            IN  IF m < 0 THEN [nan |-> TRUE, n |-> 0] ELSE [nan |-> FALSE, n |-> m]

RECURSIVE Pow2(_)
Pow2(n) == IF n = 0 THEN 1 ELSE 2 * Pow2(n - 1)

Max(a, b) == IF a >= b THEN a ELSE b

\* jitter(ms) with the random draw rnd = Math.floor(Math.random() * 120).
jitter(ms, rnd) == ms + rnd

\* const retryable = status ? RETRYABLE.has(status) : true;
IsRetryableMutant(status) == TRUE
IsRetryable(status) == IF status # NoStatus THEN status \in RETRYABLE ELSE TRUE

\* let delay = BASE_DELAY_MS * Math.pow(2, attempt);
BackoffMutant(a) == BASE_DELAY_MS * a
Backoff(a) == BASE_DELAY_MS * Pow2(a)

\* The delay before the jitter: the backoff, raised to Retry-After seconds when
\* the header is truthy (a non-empty string), numeric and positive.
BaseDelay(a, ra) ==
  LET delay == Backoff(a)
  IN  IF ra.present /\ Len(ra.value) > 0
      THEN LET sec == Number(ra.value)
           IN  IF ~sec.nan /\ sec.n > 0 THEN Max(delay, sec.n * 1000) ELSE delay
      ELSE delay

\* if (!cachedCookie && useFplWarmup && retryable)
NeedsWarmup(cookie, warm, retryable) == cookie = "" /\ warm /\ retryable

\* if (attempt < MAX_RETRIES && retryable)
CanRetry(a, retryable) == a < MAX_RETRIES /\ retryable

\* The for loop's update and test: attempt++ ; attempt <= MAX_RETRIES.
NextAttemptMutant(a) == a
NextAttempt(a) == a + 1
LoopTest(a) == a <= MAX_RETRIES

NoError == [attempt |-> -1, status |-> -1, retryAfter |-> NoHeader]
NoGet == [attempt |-> -1, cookie |-> "", status |-> -1]
NoWarm == [after |-> -1, cookie |-> ""]
NoSleep == [retry |-> 0, delay |-> 0, retryAfter |-> NoHeader, status |-> -1]
NoOutcome == [kind |-> "none", attempt |-> -1, status |-> -1]

InitRetry ==
  /\ pc = "idle"
  /\ useFplWarmup \in BOOLEAN
  /\ attempt = 0
  /\ cachedCookie = ""
  /\ lastErr = NoError
  /\ caught = NoError
  /\ gets = 0
  /\ lastGet = NoGet
  /\ warmups = 0
  /\ lastWarm = NoWarm
  /\ sleeps = 0
  /\ lastSleep = NoSleep
  /\ outcome = NoOutcome

\* No call of getWithRetries is running.
IdleRetry ==
  /\ pc = "off" /\ useFplWarmup = FALSE /\ attempt = 0
  /\ cachedCookie = "" /\ lastErr = NoError /\ caught = NoError /\ gets = 0
  /\ lastGet = NoGet /\ warmups = 0 /\ lastWarm = NoWarm /\ sleeps = 0
  /\ lastSleep = NoSleep /\ outcome = NoOutcome

\* The call: lastErr undefined, cachedCookie "", attempt 0, and the first
\* pass of the loop test.
Call ==
  /\ pc = "idle"
  /\ pc' = "get"
  /\ attempt' = 0
  /\ cachedCookie' = ""
  /\ lastErr' = NoError
  /\ UNCHANGED <<useFplWarmup, caught, gets, lastGet, warmups, lastWarm, sleeps,
                 lastSleep, outcome>>
  /\ UNCHANGED <<renderVars, sectionVars, teamVars, matchVars, priceVars, confVars, predVars, remVars, jobVars, dailyVars, loopVars, dlVars, rivVars, timesVars, mgrVars, watchVars, sumVars, pubVars, pageVars, armVars>>

\* axios.get resolves (a 2xx status): return res.
GetOk ==
  /\ pc = "get"
  /\ gets' = gets + 1
  /\ lastGet' = [attempt |-> attempt, cookie |-> cachedCookie, status |-> 200]
  /\ outcome' = [kind |-> "response", attempt |-> attempt, status |-> 200]
  /\ pc' = "done"
  /\ UNCHANGED <<useFplWarmup, attempt, cachedCookie, lastErr, caught, warmups,
                 lastWarm, sleeps, lastSleep>>
  /\ UNCHANGED <<renderVars, sectionVars, teamVars, matchVars, priceVars, confVars, predVars, remVars, jobVars, dailyVars, loopVars, dlVars, rivVars, timesVars, mgrVars, watchVars, sumVars, pubVars, pageVars, armVars>>

\* axios.get rejects with error e: the catch block up to the sleep or the throw.
GetFail ==
  /\ pc = "get"
  /\ \E status \in FailStatuses, ra \in RetryAfterSamples,
        harvested \in WarmupResults, rnd \in JitterSamples :
       LET e == [attempt |-> attempt, status |-> status,
                 retryAfter |-> IF status = NoStatus THEN NoHeader ELSE ra]
           retryable == IsRetryable(status)
           warm == NeedsWarmup(cachedCookie, useFplWarmup, retryable)
       IN  /\ gets' = gets + 1
           /\ lastGet' = [attempt |-> attempt, cookie |-> cachedCookie, status |-> status]
           /\ IF warm
              THEN /\ cachedCookie' = harvested
                   /\ warmups' = warmups + 1
                   /\ lastWarm' = [after |-> attempt, cookie |-> harvested]
              ELSE UNCHANGED <<cachedCookie, warmups, lastWarm>>
           /\ IF CanRetry(attempt, retryable)
              THEN /\ sleeps' = sleeps + 1
                   /\ lastSleep' = [retry |-> attempt + 1,
                                    delay |-> jitter(BaseDelay(attempt, e.retryAfter), rnd),
                                    retryAfter |-> e.retryAfter,
                                    status |-> status]
                   /\ caught' = e
                   /\ pc' = "sleep"
                   /\ UNCHANGED outcome
              ELSE /\ outcome' = [kind |-> "error", attempt |-> e.attempt, status |-> e.status]
                   /\ pc' = "done"
                   /\ UNCHANGED <<sleeps, lastSleep, caught>>
  /\ UNCHANGED <<useFplWarmup, attempt, lastErr>>
  /\ UNCHANGED <<renderVars, sectionVars, teamVars, matchVars, priceVars, confVars, predVars, remVars, jobVars, dailyVars, loopVars, dlVars, rivVars, timesVars, mgrVars, watchVars, sumVars, pubVars, pageVars, armVars>>

\* The sleep ends: lastErr = e; continue; then attempt++ and the loop test.
\* When the test fails the loop is left: throw lastErr.
Wake ==
  /\ pc = "sleep"
  /\ lastErr' = caught
  /\ attempt' = NextAttempt(attempt)
  /\ IF LoopTest(attempt')
     THEN /\ pc' = "get"
          /\ UNCHANGED outcome
     ELSE /\ pc' = "done"
          /\ outcome' = [kind |-> "error", attempt |-> caught.attempt,
                         status |-> caught.status]
  /\ UNCHANGED <<useFplWarmup, cachedCookie, caught, gets, lastGet, warmups,
                 lastWarm, sleeps, lastSleep>>
  /\ UNCHANGED <<renderVars, sectionVars, teamVars, matchVars, priceVars, confVars, predVars, remVars, jobVars, dailyVars, loopVars, dlVars, rivVars, timesVars, mgrVars, watchVars, sumVars, pubVars, pageVars, armVars>>

(***************************************************************************)
(*                  Properties of the HTTP retrieval layer                 *)
(***************************************************************************)

\* C1: one call of getWithRetries sends at most MAX_RETRIES + 1 GETs to the
\* target, whether the failures are retryable statuses or connection errors,
\* and it ends: every step sends a GET or ends a sleep, the GETs and the
\* sleeps are bounded, after the last allowed GET the call is over, and a
\* call that is over gave a response or an error.
C1_AttemptsBounded ==
  /\ gets <= MAX_RETRIES + 1
  /\ sleeps <= MAX_RETRIES
  /\ (pc = "get" => gets = attempt /\ sleeps = attempt /\ attempt <= MAX_RETRIES)
  /\ (pc = "sleep" => gets = attempt + 1 /\ sleeps = attempt + 1)
  /\ (gets = MAX_RETRIES + 1 => pc = "done")
  /\ (pc = "done" => outcome.kind \in {"response", "error"})

\* C1's case: all MAX_RETRIES + 1 attempts were made, the last one failing
\* with a connection error that carries no status.
C1_Witness ==
  /\ pc = "done"
  /\ gets = MAX_RETRIES + 1
  /\ outcome.kind = "error"
  /\ outcome.status = NoStatus

\* The seconds of a Retry-After header that is a positive number, else 0.
PositiveSeconds(h) ==
  IF h.present /\ Len(h.value) > 0 /\ ~Number(h.value).nan /\ Number(h.value).n > 0
  THEN Number(h.value).n
  ELSE 0

\* C2: the sleep before retry k lasts at least BASE_DELAY_MS * 2^(k-1) ms and
\* at least s * 1000 ms for a positive numeric Retry-After of s seconds: it is
\* the larger of the two plus a jitter of 0..119 ms.
C2_DelayBounds ==
  sleeps > 0 =>
    LET k    == lastSleep.retry
        back == BASE_DELAY_MS * Pow2(k - 1)
        ra   == PositiveSeconds(lastSleep.retryAfter) * 1000
    IN  /\ k \in 1..MAX_RETRIES
        /\ lastSleep.delay >= back
        /\ lastSleep.delay >= ra
        /\ lastSleep.delay - Max(back, ra) \in 0..(JITTER_SPAN - 1)

\* C2's case: the third retry after a response with Retry-After: 2, where the
\* backoff (1400 ms) is below the server's 2000 ms.
C2_Witness ==
  /\ pc = "sleep"
  /\ lastSleep.retry = 3
  /\ lastSleep.retryAfter = Header(<<"2">>)
  /\ lastSleep.delay >= 2000

\* C3: a failure with a non-retryable status ends the call at once: the error
\* of that attempt is thrown, no sleep follows it and no further GET is sent;
\* and whenever the call throws, also with every retry used up, the error
\* thrown is the one of the last attempt.
C3_NoRetryOnNonRetryable ==
  /\ (gets > 0 /\ lastGet.status \notin (RETRYABLE \cup {NoStatus, 200}) =>
        /\ pc = "done"
        /\ outcome = [kind |-> "error", attempt |-> lastGet.attempt,
                      status |-> lastGet.status]
        /\ gets = lastGet.attempt + 1
        /\ sleeps = lastGet.attempt)
  /\ (pc = "done" /\ outcome.kind = "error" =>
        /\ outcome.attempt = lastGet.attempt
        /\ outcome.status = lastGet.status
        /\ (lastGet.status \in RETRYABLE \cup {NoStatus} =>
              outcome.attempt = MAX_RETRIES))

\* C3's case: a 404 on the third attempt, after two retries.
C3_Witness ==
  /\ pc = "done"
  /\ gets = 3
  /\ sleeps = 2
  /\ outcome.kind = "error"
  /\ outcome.status = 404

\* C4: with useFplWarmup set the warm-up request is made exactly once per
\* call, after the first retryable failure, and never again (also when it
\* harvested no cookie); later attempts send the harvested cookie; without
\* useFplWarmup, or after a non-retryable failure only, there is no warm-up.
C4_WarmupOnce ==
  /\ warmups <= 1
  /\ (warmups > 0 => useFplWarmup /\ lastWarm.after = 0)
  /\ (useFplWarmup /\ gets > 0 /\ IsRetryable(lastGet.status) /\ lastGet.status # 200 =>
        warmups = 1)
  /\ (lastWarm.cookie # "" /\ lastGet.attempt > lastWarm.after =>
        lastGet.cookie = lastWarm.cookie)
  /\ (gets = 1 /\ lastGet.status # 200 /\ ~IsRetryable(lastGet.status) => warmups = 0)

\* What the code does keep of C4: no warm-up without useFplWarmup or after a
\* non-retryable failure, none once a cookie is cached, and every attempt that
\* follows a warm-up sends what the latest warm-up harvested.
WarmupFacts ==
  /\ (~useFplWarmup => warmups = 0)
  /\ warmups <= gets
  /\ (gets = 1 /\ lastGet.status # 200 /\ ~IsRetryable(lastGet.status) => warmups = 0)
  /\ (warmups > 0 /\ lastGet.attempt > lastWarm.after => lastGet.cookie = lastWarm.cookie)


(***************************************************************************)
(*                      Rendering fallback chains                          *)
(***************************************************************************)

\* html.length < 2000 (fetchRenderedHtml 457, fetchFplMundoArticle 655, 672)
MIN_HTML_LEN == 2000
\* html.length < 500 (688) and String(text).trim().length > 500 (676)
MIN_BODY_LEN == 500

\* A page is its length and the marker substrings it contains.  "__cf_bm" (a
\* Cloudflare cookie name) contains "__cf" but not "__cf_chl".
HtmlLens == {0, 499, 1999, 2000, 5000}
MarkerSets == {{}, {"cloudflare"}, {"cf-browser-verification"}, {"__cf_bm"}, {"Loading"}}
Htmls == [len : HtmlLens, markers : MarkerSets]
EmptyHtml == [len |-> 0, markers |-> {}]

\* The plain text the proxy answers: its trimmed length (String(text || "")).
ProxyTexts == [len : {0, 500, 501, 5000}, markers : {{}}]

\* /just a moment|cloudflare|cf-browser-verification|__cf_chl/i.test(html)
looksLikeChallenge(h) ==
  h.markers \cap {"just a moment", "cloudflare", "cf-browser-verification", "__cf_chl"} # {}

\* html.length < 2000 || />\s*Loading\s*<|id="__next"[^>]*>\s*<\/div>/i.test(html)
looksLikeShell(h) ==
  h.len < MIN_HTML_LEN \/ h.markers \cap {"Loading", "empty __next"} # {}

\* if (!looksLikeChallenge && !looksLikeShell) return html;
PlainSufficientMutant(h) == ~looksLikeShell(h)
PlainSufficient(h) == ~looksLikeChallenge(h) /\ ~looksLikeShell(h)

\* /__cf|just a moment|cloudflare/i.test(html)
mundoChallenge(h) ==
  h.markers \cap {"__cf_bm", "__cf_chl", "just a moment", "cloudflare"} # {}

\* if (!html || html.length < 2000): the plain fetch is needed
NeedsPlainMutant(h) == TRUE
NeedsPlain(h) == h.len = 0 \/ h.len < MIN_HTML_LEN

\* if (!html || html.length < 2000 || /__cf|just a moment|cloudflare/i.test(html))
NeedsProxy(h) == h.len = 0 \/ h.len < MIN_HTML_LEN \/ mundoChallenge(h)

\* The stage fetchFplMundoArticle runs after its plain stage was run or skipped.
AfterPlain(h) == IF NeedsProxy(h) THEN "proxy" ELSE "parse"

\* One stage of a run: its name, how it ended ("html", "error", or for the
\* headless stage also "load-error": require("puppeteer") or launch threw),
\* and the page it produced.
Stage(name, how, h) == [stage |-> name, how |-> how, html |-> h]

NoRender == [kind |-> "none", by |-> "none", html |-> EmptyHtml]
Returned(by, h) == [kind |-> "returned", by |-> by, html |-> h]
Thrown(by) == [kind |-> "thrown", by |-> by, html |-> EmptyHtml]

InitRender ==
  /\ fn \in {"fetchRenderedHtml", "fetchFplMundoArticle"}
  /\ hasPuppeteer \in BOOLEAN
  /\ puppeteerExtra \in BOOLEAN
  /\ (puppeteerExtra => hasPuppeteer)
  /\ rpc = "start"
  /\ html = EmptyHtml
  /\ stages = <<>>
  /\ rOutcome = NoRender
  /\ bodyLen = 0

IdleRender ==
  /\ fn = "none"
  /\ hasPuppeteer = FALSE
  /\ puppeteerExtra = FALSE
  /\ rpc = "idle"
  /\ html = EmptyHtml
  /\ stages = <<>>
  /\ rOutcome = NoRender
  /\ bodyLen = 0

\* fetchRenderedHtml 1): the plain GET.  A rejected request (network error,
\* status outside 200..399) is caught and falls through.
FrhPlain ==
  /\ fn = "fetchRenderedHtml" /\ rpc = "start"
  /\ \/ \E h \in Htmls :
          /\ stages' = Append(stages, Stage("plain", "html", h))
          /\ IF PlainSufficient(h)
             THEN rpc' = "done" /\ rOutcome' = Returned("plain", h)
             ELSE /\ rpc' = IF hasPuppeteer THEN "headless" ELSE "proxy"
                  /\ UNCHANGED rOutcome
     \/ /\ stages' = Append(stages, Stage("plain", "error", EmptyHtml))
        /\ rpc' = IF hasPuppeteer THEN "headless" ELSE "proxy"
        /\ UNCHANGED rOutcome
  /\ UNCHANGED <<fn, hasPuppeteer, puppeteerExtra, html, bodyLen>>
  /\ UNCHANGED <<retryVars, sectionVars, teamVars, matchVars, priceVars, confVars, predVars, remVars, jobVars, dailyVars, loopVars, dlVars, rivVars, timesVars, mgrVars, watchVars, sumVars, pubVars, pageVars, armVars>>

\* fetchRenderedHtml 2): require("puppeteer") and puppeteer.launch stand
\* before the try block, so what they throw leaves the function; an error of
\* the page operations is caught and falls through; page.content() is
\* returned whatever it holds (the waitForFunction timeout is swallowed).
FrhHeadless ==
  /\ fn = "fetchRenderedHtml" /\ rpc = "headless"
  /\ \/ /\ stages' = Append(stages, Stage("headless", "load-error", EmptyHtml))
        /\ rpc' = "done"
        /\ rOutcome' = Thrown("headless")
     \/ /\ stages' = Append(stages, Stage("headless", "error", EmptyHtml))
        /\ rpc' = "proxy"
        /\ UNCHANGED rOutcome
     \/ \E h \in Htmls :
          /\ stages' = Append(stages, Stage("headless", "html", h))
          /\ rpc' = "done"
          /\ rOutcome' = Returned("headless", h)
  /\ UNCHANGED <<fn, hasPuppeteer, puppeteerExtra, html, bodyLen>>
  /\ UNCHANGED <<retryVars, sectionVars, teamVars, matchVars, priceVars, confVars, predVars, remVars, jobVars, dailyVars, loopVars, dlVars, rivVars, timesVars, mgrVars, watchVars, sumVars, pubVars, pageVars, armVars>>

\* fetchRenderedHtml 3): the text proxy, outside any try block; its text is
\* returned in the <html><body><main> wrapper.
FrhProxy ==
  /\ fn = "fetchRenderedHtml" /\ rpc = "proxy"
  /\ \/ \E t \in ProxyTexts :
          /\ stages' = Append(stages, Stage("proxy", "html", t))
          /\ rOutcome' = Returned("proxy", t)
     \/ /\ stages' = Append(stages, Stage("proxy", "error", EmptyHtml))
        /\ rOutcome' = Thrown("proxy")
  /\ rpc' = "done"
  /\ UNCHANGED <<fn, hasPuppeteer, puppeteerExtra, html, bodyLen>>
  /\ UNCHANGED <<retryVars, sectionVars, teamVars, matchVars, priceVars, confVars, predVars, remVars, jobVars, dailyVars, loopVars, dlVars, rivVars, timesVars, mgrVars, watchVars, sumVars, pubVars, pageVars, armVars>>

\* fetchFplMundoArticle 1): renderWithPuppeteer when puppeteerExtra is loaded;
\* every error is caught (html stays "").
MundoHeadless ==
  /\ fn = "fetchFplMundoArticle" /\ rpc = "start" /\ puppeteerExtra
  /\ \/ \E h \in Htmls :
          /\ stages' = Append(stages, Stage("headless", "html", h))
          /\ html' = h
     \/ /\ stages' = Append(stages, Stage("headless", "error", EmptyHtml))
        /\ UNCHANGED html
  /\ rpc' = IF NeedsPlain(html') THEN "plain" ELSE AfterPlain(html')
  /\ UNCHANGED <<fn, hasPuppeteer, puppeteerExtra, rOutcome, bodyLen>>
  /\ UNCHANGED <<retryVars, sectionVars, teamVars, matchVars, priceVars, confVars, predVars, remVars, jobVars, dailyVars, loopVars, dlVars, rivVars, timesVars, mgrVars, watchVars, sumVars, pubVars, pageVars, armVars>>

\* fetchFplMundoArticle 2): the plain GET, html = res.data || ""; an error is
\* caught and leaves html as it was.
MundoPlain ==
  /\ fn = "fetchFplMundoArticle"
  /\ (rpc = "start" /\ ~puppeteerExtra) \/ rpc = "plain"
  /\ \/ \E h \in Htmls :
          /\ stages' = Append(stages, Stage("plain", "html", h))
          /\ html' = h
     \/ /\ stages' = Append(stages, Stage("plain", "error", EmptyHtml))
        /\ UNCHANGED html
  /\ rpc' = AfterPlain(html')
  /\ UNCHANGED <<fn, hasPuppeteer, puppeteerExtra, rOutcome, bodyLen>>
  /\ UNCHANGED <<retryVars, sectionVars, teamVars, matchVars, priceVars, confVars, predVars, remVars, jobVars, dailyVars, loopVars, dlVars, rivVars, timesVars, mgrVars, watchVars, sumVars, pubVars, pageVars, armVars>>

\* fetchFplMundoArticle 3): the text proxy; a text of more than 500 characters
\* is returned as the draft, a shorter one or an error is dropped.
MundoProxy ==
  /\ fn = "fetchFplMundoArticle" /\ rpc = "proxy"
  /\ \/ \E t \in ProxyTexts :
          /\ stages' = Append(stages, Stage("proxy", "html", t))
          /\ IF t.len > MIN_BODY_LEN
             THEN rpc' = "done" /\ rOutcome' = Returned("proxy", t) /\ bodyLen' = t.len
             ELSE rpc' = "parse" /\ UNCHANGED <<rOutcome, bodyLen>>
     \/ /\ stages' = Append(stages, Stage("proxy", "error", EmptyHtml))
        /\ rpc' = "parse"
        /\ UNCHANGED <<rOutcome, bodyLen>>
  /\ UNCHANGED <<fn, hasPuppeteer, puppeteerExtra, html>>
  /\ UNCHANGED <<retryVars, sectionVars, teamVars, matchVars, priceVars, confVars, predVars, remVars, jobVars, dailyVars, loopVars, dlVars, rivVars, timesVars, mgrVars, watchVars, sumVars, pubVars, pageVars, armVars>>

\* Lengths of the markdown that Readability and Turndown extract from a page.
BodyLens == {0, 500, 501, 5000}

\* if (!html || html.length < 500) throw
TooShort(h) == h.len = 0 \/ h.len < MIN_BODY_LEN

\* fetchFplMundoArticle: if (!html || html.length < 500) throw; else the page
\* is parsed and the draft returned, whatever the length of the markdown
\* extracted from it (article?.content || preferArticleSection(html) || "").
MundoParse ==
  /\ fn = "fetchFplMundoArticle" /\ rpc = "parse"
  /\ rpc' = "done"
  /\ IF TooShort(html)
     THEN rOutcome' = Thrown("parse") /\ UNCHANGED bodyLen
     ELSE /\ rOutcome' = Returned("readability", html)
          /\ \E b \in BodyLens : b <= html.len /\ bodyLen' = b
  /\ UNCHANGED <<fn, hasPuppeteer, puppeteerExtra, html, stages>>
  /\ UNCHANGED <<retryVars, sectionVars, teamVars, matchVars, priceVars, confVars, predVars, remVars, jobVars, dailyVars, loopVars, dlVars, rivVars, timesVars, mgrVars, watchVars, sumVars, pubVars, pageVars, armVars>>

(***************************************************************************)
(*                Properties of the rendering fallback chains              *)
(***************************************************************************)

StageNames == [i \in 1..Len(stages) |-> stages[i].stage]

\* The claims' notion of a sufficient page: no challenge marker, at least 2000
\* characters, not an application shell.
ClaimSufficient(h) ==
  /\ h.len >= 2000
  /\ h.markers \cap {"just a moment", "cloudflare", "cf-browser-verification",
                     "__cf_chl", "Loading", "empty __next"} = {}

\* A stage that failed or whose page is insufficient.
StageFell(st) == st.how # "html" \/ ~ClaimSufficient(st.html)

ChainRank(name) == CASE name = "plain" -> 1 [] name = "headless" -> 2 [] OTHER -> 3

\* The stages run in the order plain, headless, proxy; a later stage starts
\* only after the stage before it failed or was insufficient; the headless
\* stage never starts before a plain fetch; a sufficient plain result is
\* returned with no further request.
FixedOrder ==
  /\ \A i, j \in 1..Len(stages) :
       i < j => ChainRank(stages[i].stage) < ChainRank(stages[j].stage)
  /\ \A i \in 1..Len(stages) :
       stages[i].stage = "headless" => \E j \in 1..(i - 1) : stages[j].stage = "plain"
  /\ \A i \in 2..Len(stages) : StageFell(stages[i - 1])
  /\ \A i \in 1..Len(stages) :
       stages[i].stage = "plain" /\ ~StageFell(stages[i]) => Len(stages) = i

\* C5 as claimed: both rendering chains, fetchRenderedHtml and
\* fetchFplMundoArticle, run plain fetch, then headless render, then text
\* proxy, each later stage only after the earlier one fell through.
C5_FixedOrder == fn \in {"fetchRenderedHtml", "fetchFplMundoArticle"} => FixedOrder

MundoRank(name) == CASE name = "headless" -> 1 [] name = "plain" -> 2 [] OTHER -> 3

\* C5 as amended: fetchRenderedHtml keeps the fixed order plain, headless (only
\* with HAS_PUPPETEER), proxy, and returns a plain page exactly when it is
\* sufficient; fetchFplMundoArticle runs the headless render first (only when
\* puppeteerExtra is loaded), the plain fetch only after a render that failed
\* or gave under 2000 characters, and the proxy only when the html so far is
\* missing, under 2000 characters or carries a challenge marker.
C5_StageOrder ==
  /\ (fn = "fetchRenderedHtml" =>
        /\ FixedOrder
        /\ (rOutcome.by = "plain" => ClaimSufficient(rOutcome.html))
        /\ \A i \in 1..Len(stages) :
             stages[i].stage = "plain" /\ ~StageFell(stages[i]) =>
               rOutcome = Returned("plain", stages[i].html)
        /\ (\E i \in 1..Len(stages) : stages[i].stage = "headless") => hasPuppeteer)
  /\ (fn = "fetchFplMundoArticle" =>
        /\ \A i, j \in 1..Len(stages) :
             i < j => MundoRank(stages[i].stage) < MundoRank(stages[j].stage)
        /\ (\E i \in 1..Len(stages) : stages[i].stage = "headless") => puppeteerExtra
        /\ \A i \in 2..Len(stages) :
             stages[i].stage = "plain" =>
               stages[i - 1].how = "error" \/ stages[i - 1].html.len < 2000
        /\ \A i \in 1..Len(stages) :
             stages[i].stage = "proxy" =>
               \/ html.len < 2000
               \/ html.markers \cap {"__cf_bm", "__cf_chl", "just a moment", "cloudflare"} # {})

\* C5's case: fetchRenderedHtml went through all three stages in order.
C5_Witness ==
  /\ fn = "fetchRenderedHtml"
  /\ rpc = "done"
  /\ StageNames = <<"plain", "headless", "proxy">>
  /\ rOutcome.kind = "returned"

\* C6: fetchRenderedHtml throws only when the proxy stage failed; an exception
\* or an insufficient page in the plain or the headless stage, a browser that
\* cannot be loaded or launched included, falls through towards the proxy.
C6_FailsOnlyWhenExhausted ==
  fn = "fetchRenderedHtml" =>
    /\ (rOutcome.kind = "thrown" =>
          /\ rOutcome.by = "proxy"
          /\ stages[Len(stages)] = Stage("proxy", "error", EmptyHtml))
    /\ \A i \in 1..Len(stages) :
         stages[i].stage \in {"plain", "headless"} /\ StageFell(stages[i]) /\ rpc = "done"
           => Len(stages) > i



(***************************************************************************)
(*                       Multi-section extraction                          *)
(***************************************************************************)

\* parseInt(process.env.MUNDO_SECTION_MIN_CHARS || "600", 10)
MUNDO_SECTION_MIN_CHARS == 600
\* bigText.length >= 300 (605)
PAGE_MIN_CHARS == 300
\* text.slice(0, 600)
EXCERPT_CHARS == 600

\* The values of MUNDO_MAX_SECTIONS the model runs with: the default 4 and 1.
MaxSectionsSamples == {1, 4}

\* A page has at most MaxNodes child nodes of its root.
MaxNodes == 3

\* A node is a heading or a paragraph with the length of its text, or an
\* <article> with its child headings and paragraphs.  The page is written
\* without white space between the tags, no text starts or ends with white
\* space, and articles are not nested.
Leaf(tag, len) == [tag |-> tag, len |-> len, kids |-> <<>>]
Article(kids) == [tag |-> "article", len |-> 0, kids |-> kids]

HeadingLens == {10}
ParaLens == {50, 350, 900}
Headings == {Leaf(t, l) : t \in {"h2", "h3"}, l \in HeadingLens}
Paragraphs == {Leaf("p", l) : l \in ParaLens}

\* An <article> is empty, one paragraph, or a heading and a paragraph.
ArticleBodies ==
  {<<>>} \cup {<<q>> : q \in Paragraphs} \cup {<<h, q>> : h \in Headings, q \in Paragraphs}

Nodes == Headings \cup Paragraphs \cup {Article(k) : k \in ArticleBodies}

Pages == UNION {[1..n -> Nodes] : n \in 0..MaxNodes}

Min(a, b) == IF a <= b THEN a ELSE b

Indices(n) == [i \in 1..n |-> i]

RECURSIVE SumLen(_)
SumLen(nodes) == IF nodes = <<>> THEN 0 ELSE Head(nodes).len + SumLen(Tail(nodes))

\* The text htmlToText leaves of a run of headings and paragraphs: the tags
\* are stripped, every </p> becomes "\n\n", and the result is trimmed, so the
\* two newlines stay after every paragraph but a last one.
LeafText(nodes) ==
  IF nodes = <<>> THEN 0
  ELSE SumLen(nodes) + 2 * Cardinality({i \in 1..(Len(nodes) - 1) : nodes[i].tag = "p"})

\* htmlToText(html).length for a run of sibling nodes: the text of the first
\* <article>...</article> when the run holds one, else of the whole run.
htmlToText(block) ==
  LET arts == SelectSeq(Indices(Len(block)), LAMBDA i : block[i].tag = "article")
  IN  IF arts # <<>> THEN LeafText(block[arts[1]].kids) ELSE LeafText(block)

\* One returned section: the strategy that built it, the place of its
\* <article> or heading in the page, text.length and excerpt.length.
Section(strategy, at, text) ==
  [strategy |-> strategy, at |-> at, textLen |-> text, excerptLen |-> Min(text, EXCERPT_CHARS)]

\* if (text && text.length >= MUNDO_SECTION_MIN_CHARS)
QualifiesMutant(text) == text > 0
Qualifies(text) == text > 0 /\ text >= MUNDO_SECTION_MIN_CHARS

\* (1) root.find("article"): with 2 or more, each one with enough text is a section.
ArticleSections(pg) ==
  LET arts == SelectSeq(Indices(Len(pg)), LAMBDA i : pg[i].tag = "article")
      good == SelectSeq(arts, LAMBDA i : Qualifies(htmlToText(<<pg[i]>>)))
  IN  IF Len(arts) >= 2
      THEN [k \in 1..Len(good) |-> Section("article", <<good[k]>>, htmlToText(<<pg[good[k]]>>))]
      ELSE <<>>

IsHeading(n) == n.tag \in {"h2", "h3"}

\* const level = (el) => tag === "h2" ? 2 : tag === "h3" ? 3 : 9
level(n) == IF n.tag = "h2" THEN 2 ELSE IF n.tag = "h3" THEN 3 ELSE 9

RECURSIVE HeadersFrom(_, _)
\* root.find("h2,h3").toArray() from child i on: the headings in document
\* order, each by its path <<i>> below the root or <<i, j>> inside article i.
HeadersFrom(pg, i) ==
  IF i > Len(pg) THEN <<>>
  ELSE LET n == pg[i]
           here == IF IsHeading(n) THEN << <<i>> >>
                   ELSE IF n.tag = "article"
                        THEN LET js == SelectSeq(Indices(Len(n.kids)),
                                                 LAMBDA j : IsHeading(n.kids[j]))
                             IN  [k \in 1..Len(js) |-> <<i, js[k]>>]
                        ELSE <<>>
       IN  here \o HeadersFrom(pg, i + 1)

\* The siblings of the node at a path.
Siblings(pg, path) == IF Len(path) = 1 THEN pg ELSE pg[path[1]].kids

\* if (... /^(h2|h3)$/i.test(n.tagName) && level(n) <= startLevel) break;
ClosesMutant(n, startLevel) == IsHeading(n)
Closes(n, startLevel) == IsHeading(n) /\ level(n) <= startLevel

\* The block of a heading: the heading and its following siblings up to the
\* next heading of the same or a higher level.
Block(pg, path) ==
  LET sibs  == Siblings(pg, path)
      s     == path[Len(path)]
      stops == {k \in (s + 1)..Len(sibs) : Closes(sibs[k], level(sibs[s]))}
      e     == IF stops = {} THEN Len(sibs)
               ELSE (CHOOSE k \in stops : \A m \in stops : k <= m) - 1
  IN  SubSeq(sibs, s, e)

RECURSIVE HeadingLoop(_, _, _, _, _)
\* for (let i = 0; i < headers.length; i++) { ... push ...;
\*   if (sections.length >= MUNDO_MAX_SECTIONS) break; }
HeadingLoop(pg, headers, i, secs, max) ==
  IF i > Len(headers) THEN secs
  ELSE LET text == htmlToText(Block(pg, headers[i]))
           next == IF Qualifies(text)
                   THEN Append(secs, Section("heading", headers[i], text))
                   ELSE secs
       IN  IF Len(next) >= max THEN next
           ELSE HeadingLoop(pg, headers, i + 1, next, max)

\* return sections.slice(0, MUNDO_MAX_SECTIONS)
TrimMutant(secs, max) == secs
Trim(secs, max) == SubSeq(secs, 1, Min(Len(secs), max))

extractSectionsFromHtml(pg, max) ==
  LET fromArticles == ArticleSections(pg)
      withHeadings == IF Len(fromArticles) < 2
                      THEN HeadingLoop(pg, HeadersFrom(pg, 1), 1, fromArticles, max)
                      ELSE fromArticles
      bigText      == htmlToText(pg)
      all          == IF Len(withHeadings) = 0
                      THEN IF bigText > 0 /\ bigText >= PAGE_MIN_CHARS
                           THEN <<Section("page", <<>>, bigText)>>
                           ELSE <<>>
                      ELSE withHeadings
  IN  Trim(all, max)

InitSections ==
  /\ spc = "input"
  /\ page \in Pages
  /\ maxSections \in MaxSectionsSamples
  /\ sections = <<>>

IdleSections ==
  /\ spc = "off"
  /\ page = <<>>
  /\ maxSections = 4
  /\ sections = <<>>

ExtractSections ==
  /\ spc = "input"
  /\ sections' = extractSectionsFromHtml(page, maxSections)
  /\ spc' = "done"
  /\ UNCHANGED <<page, maxSections>>
  /\ UNCHANGED <<retryVars, renderVars, teamVars, matchVars, priceVars, confVars, predVars, remVars, jobVars, dailyVars, loopVars, dlVars, rivVars, timesVars, mgrVars, watchVars, sumVars, pubVars, pageVars, armVars>>


(***************************************************************************)
(*                Properties of the multi-section extraction               *)
(***************************************************************************)

\* C7 as claimed: at most MUNDO_MAX_SECTIONS sections are returned and every
\* returned section, the whole-page fallback included, has a plain text of at
\* least MUNDO_SECTION_MIN_CHARS characters.
C7_AllSectionsMinChars ==
  spc = "done" =>
    /\ Len(sections) <= maxSections
    /\ \A i \in 1..Len(sections) : sections[i].textLen >= MUNDO_SECTION_MIN_CHARS

\* C7 as amended: at most MUNDO_MAX_SECTIONS sections are returned; a section
\* built from an <article> or from a heading has at least
\* MUNDO_SECTION_MIN_CHARS characters of text, and the whole-page fallback
\* section, which is returned alone, has at least 300.
C7_SectionBounds ==
  spc = "done" =>
    /\ Len(sections) <= maxSections
    /\ \A i \in 1..Len(sections) :
         /\ sections[i].strategy \in {"article", "heading"} =>
              sections[i].textLen >= MUNDO_SECTION_MIN_CHARS
         /\ sections[i].strategy = "page" =>
              sections[i].textLen >= PAGE_MIN_CHARS /\ Len(sections) = 1

\* C7's case: the whole page of 350 characters came back as the one section,
\* below MUNDO_SECTION_MIN_CHARS.
C7_Witness ==
  /\ spc = "done"
  /\ Len(sections) = 1
  /\ sections[1].strategy = "page"
  /\ sections[1].textLen < MUNDO_SECTION_MIN_CHARS

\* The <article> elements of the page.
ArticleCount == Cardinality({i \in 1..Len(page) : page[i].tag = "article"})

\* C8: the first satisfying strategy wins: on a page with 2 or more <article>
\* elements every returned section is built from one of them, no heading
\* section and no whole-page section is added, whatever headings the articles
\* contain.
C8_FirstStrategyWins ==
  spc = "done" /\ ArticleCount >= 2 =>
    \A i \in 1..Len(sections) : sections[i].strategy = "article"


(***************************************************************************)
(*                        Standings normalizer                             *)
(***************************************************************************)

\* A table has at most MaxRows rows.
MaxRows == 3

\* The raw rows the tables are made of.  A row is an object with some of the
\* vendor fields; its numeric fields hold numbers and its name fields hold
\* non-empty strings.  The last but one has the canonical shape normalizeTeams
\* returns; the last one has no field that gives a position.
RawRows ==
  { [position |-> 1, team |-> "Alpha", owner |-> "ann", total_score |-> 50, points |-> 3],
    [rank |-> 2, entry_name |-> "Beta", player_name |-> "bob", total |-> 6],
    [team |-> "Gamma"],
    [position |-> 2, team_name |-> "Delta", Score |-> 70, Points |-> 4, value |-> 100,
     form |-> "WWL"],
    [Position |-> 1, Team |-> "Eps", Owner |-> "eve", recent |-> "LL"],
    [rank |-> 4, name |-> "Zeta", season_points |-> 20, h2h |-> 1],
    [position |-> 3, team |-> "Eta", owner |-> "hal", totalScore |-> 80, h2hPoints |-> 5,
     value |-> 90, recent |-> "W"],
    [name |-> "Iota", manager |-> "ivy", score |-> 30, h2h_points |-> 2] }

Tables == UNION {[1..n -> RawRows] : n \in 0..MaxRows}

RECURSIVE Nullish(_, _, _)
\* r.a ?? r.b ?? ... ?? dflt: the first of the fields that the row has.
Nullish(r, names, dflt) ==
  IF names = <<>> THEN dflt
  ELSE IF Head(names) \in DOMAIN r THEN r[Head(names)]
       ELSE Nullish(r, Tail(names), dflt)

RECURSIVE Truthy(_, _, _, _)
\* r.a || r.b || ... || dflt: the first of the fields that the row has with a
\* truthy value; falsy is the number 0 or the string "".
Truthy(r, names, falsy, dflt) ==
  IF names = <<>> THEN dflt
  ELSE IF Head(names) \in DOMAIN r /\ r[Head(names)] # falsy THEN r[Head(names)]
       ELSE Truthy(r, Tail(names), falsy, dflt)

\* The default of position: i + 1 for the 0-based index i of the row; k is
\* the row's 1-based index.
DefaultPositionMutant(k) == k - 1
DefaultPosition(k) == (k - 1) + 1

\* The object the map callback of src/index.js builds for row r at 1-based index k.
StandingIndex(r, k) ==
  [ position   |-> Nullish(r, <<"Position", "position", "rank">>, DefaultPosition(k)),
    team       |-> Nullish(r, <<"Team", "team", "team_name", "entry_name", "name">>,
                           "Unknown Team"),
    owner      |-> Nullish(r, <<"Owner", "owner", "manager", "owner_name", "player_name",
                                "user", "coach">>, "Unknown"),
    totalScore |-> Nullish(r, <<"Score", "total_score", "points_for", "season_points">>, 0),
    h2hPoints  |-> Nullish(r, <<"Points", "points", "h2h_points", "h2h", "total">>, 0),
    value      |-> Nullish(r, <<"Current Team Value", "value", "team_value">>, 0),
    recent     |-> Truthy(r, <<"form", "recent">>, "", "") ]

\* The object the map callback of src/unnamed/part_000 builds.
StandingPart000(r, k) ==
  [ position   |-> Truthy(r, <<"position", "rank">>, 0, DefaultPosition(k)),
    team       |-> Truthy(r, <<"team", "team_name", "name">>, "", "Unknown Team"),
    owner      |-> Truthy(r, <<"owner", "manager", "owner_name", "user", "coach">>, "",
                          "Unknown"),
    totalScore |-> Truthy(r, <<"total_score", "score", "total", "season_points">>, 0, 0),
    h2hPoints  |-> Truthy(r, <<"points", "h2h_points", "h2h">>, 0, 0),
    value      |-> Truthy(r, <<"value", "team_value">>, 0, 0),
    recent     |-> Truthy(r, <<"form", "recent">>, "", "") ]

RECURSIVE InsertMutant(_, _)
InsertMutant(t, sorted) ==
  IF sorted = <<>> THEN <<t>>
  ELSE IF t.position <= Head(sorted).position THEN <<t>> \o sorted
       ELSE <<Head(sorted)>> \o InsertMutant(t, Tail(sorted))

RECURSIVE Insert(_, _)
\* t put into a list sorted by position, behind the entries that compare
\* equal to it: Array.prototype.sort is stable.
Insert(t, sorted) ==
  IF sorted = <<>> THEN <<t>>
  ELSE IF t.position < Head(sorted).position THEN <<t>> \o sorted
       ELSE <<Head(sorted)>> \o Insert(t, Tail(sorted))

RECURSIVE SortFrom(_, _, _)
\* .sort((a, b) => a.position - b.position) of list[k..], onto acc.
SortFrom(list, k, acc) ==
  IF k > Len(list) THEN acc ELSE SortFrom(list, k + 1, Insert(list[k], acc))

SortByPosition(list) == SortFrom(list, 1, <<>>)

normalizeTeams(rs, rev) ==
  SortByPosition([k \in 1..Len(rs) |->
                    IF rev = "index" THEN StandingIndex(rs[k], k)
                    ELSE StandingPart000(rs[k], k)])

InitTeams ==
  /\ tpc = "input"
  /\ revision \in {"index", "part_000"}
  /\ rows \in Tables
  /\ teams = <<>>
  /\ again = <<>>

IdleTeams ==
  /\ tpc = "off"
  /\ revision = "index"
  /\ rows = <<>>
  /\ teams = <<>>
  /\ again = <<>>

\* const teams = normalizeTeams(rows);
Normalize ==
  /\ tpc = "input"
  /\ teams' = normalizeTeams(rows, revision)
  /\ tpc' = "once"
  /\ UNCHANGED <<revision, rows, again>>
  /\ UNCHANGED <<retryVars, renderVars, sectionVars, matchVars, priceVars, confVars, predVars, remVars, jobVars, dailyVars, loopVars, dlVars, rivVars, timesVars, mgrVars, watchVars, sumVars, pubVars, pageVars, armVars>>

\* normalizeTeams applied to its own output.
NormalizeAgain ==
  /\ tpc = "once"
  /\ again' = normalizeTeams(teams, revision)
  /\ tpc' = "twice"
  /\ UNCHANGED <<revision, rows, teams>>
  /\ UNCHANGED <<retryVars, renderVars, sectionVars, matchVars, priceVars, confVars, predVars, remVars, jobVars, dailyVars, loopVars, dlVars, rivVars, timesVars, mgrVars, watchVars, sumVars, pubVars, pageVars, armVars>>

(***************************************************************************)
(*                   Properties of the standings normalizer                *)
(***************************************************************************)

\* C9 (as stated): normalizeTeams applied to its own output is the identity:
\* the second result equals the first field by field and in the same order.
C9_Idempotent == tpc = "twice" => again = teams

\* C9 (amended): normalizeTeams applied to its own output keeps the order and
\* the position, team, owner, value and recent of every standing, and sets
\* totalScore and h2hPoints to 0, because totalScore and h2hPoints are not
\* among the field names it reads.
C9_SecondPassKeepsAllButScores ==
  tpc = "twice" =>
    /\ Len(again) = Len(teams)
    /\ \A i \in 1..Len(teams) :
         /\ again[i].position = teams[i].position
         /\ again[i].team = teams[i].team
         /\ again[i].owner = teams[i].owner
         /\ again[i].value = teams[i].value
         /\ again[i].recent = teams[i].recent
         /\ again[i].totalScore = 0
         /\ again[i].h2hPoints = 0

\* C9 witness: a table of several standings, two of them at the same position,
\* was normalized twice, and a standing that had scores lost them.
C9_Witness ==
  /\ tpc = "twice"
  /\ \E i, j \in 1..Len(teams) :
       /\ i < j
       /\ teams[i].position = teams[j].position
       /\ teams[i].team # teams[j].team
  /\ \E i \in 1..Len(teams) :
       /\ teams[i].totalScore > 0
       /\ teams[i].h2hPoints > 0
       /\ again[i].totalScore = 0

\* The fields that give a row its position, in the order they are read.
PositionFields == IF revision = "index" THEN <<"Position", "position", "rank">>
                  ELSE <<"position", "rank">>

HasPosition(r) == \E n \in 1..Len(PositionFields) : PositionFields[n] \in DOMAIN r

\* The position row k of the input carries, or else its 1-based index.
OwnPosition(k) ==
  IF HasPosition(rows[k])
  THEN LET n == CHOOSE n \in 1..Len(PositionFields) :
                  /\ PositionFields[n] \in DOMAIN rows[k]
                  /\ \A m \in 1..(n - 1) : PositionFields[m] \notin DOMAIN rows[k]
       IN  rows[k][PositionFields[n]]
  ELSE k

\* C10 (as stated): after normalizeTeams the positions of the N standings are
\* 1, 2, ..., N in this order, for every input.
C10_PositionsContiguous ==
  tpc \in {"once", "twice"} =>
    \A i \in 1..Len(teams) : teams[i].position = i

\* C10 (amended): after normalizeTeams there is one standing per row, in
\* ascending (non-decreasing) order of position; every row's position is the
\* one it carried or else its 1-based index in the input, positions are not
\* renumbered; they are 1, 2, ..., N when no row carries a position.
C10_PositionsAscending ==
  tpc \in {"once", "twice"} =>
    /\ Len(teams) = Len(rows)
    /\ \A i \in 1..(Len(teams) - 1) : teams[i].position <= teams[i + 1].position
    /\ \A p \in {OwnPosition(k) : k \in 1..Len(rows)} :
         Cardinality({i \in 1..Len(teams) : teams[i].position = p})
           = Cardinality({k \in 1..Len(rows) : OwnPosition(k) = p})
    /\ (\A k \in 1..Len(rows) : ~HasPosition(rows[k])) =>
         \A i \in 1..Len(teams) : teams[i].position = i

\* C10 witness: a table whose rows came out of order, one of them without a
\* position, was normalized, and the positions skip a value.
C10_Witness ==
  /\ tpc = "once"
  /\ Len(rows) = 3
  /\ HasPosition(rows[1]) /\ ~HasPosition(rows[2]) /\ HasPosition(rows[3])
  /\ OwnPosition(1) > OwnPosition(3)
  /\ teams[1].position = 1 /\ teams[2].position = 2 /\ teams[3].position = 4

(***************************************************************************)
(*                          Drama-scored matchups                          *)
(***************************************************************************)

\* A fixture list has at most MaxFixtures fixtures.
MaxFixtures == 3

MIN_TEAMS == 6
MAX_PICKS == 3

TeamCounts == {5, 6, 7}

TeamNames == <<"Alpha", "Beta FC", "Gamma", "Delta", "Eps", "Zeta", "Eta", "Theta">>
OwnerNames == <<"ann", "bob", "cat", "dan", "eve", "fay", "gus", "hal">>

\* H2H points and season totals by position: a close table, a table of ties,
\* a table whose neighbours are 200 H2H points apart, and a table of wide
\* and unequal H2H gaps.
Profiles ==
  { [h2h   |-> <<30, 28, 25, 20, 15, 12, 10, 9>>,
     total |-> <<900, 850, 870, 700, 650, 640, 600, 590>>],
    [h2h   |-> <<30, 30, 30, 9, 9, 9, 9, 9>>,
     total |-> <<500, 500, 400, 400, 300, 300, 200, 200>>],
    [h2h   |-> <<1400, 1200, 1000, 800, 600, 400, 200, 0>>,
     total |-> <<900, 800, 700, 600, 500, 400, 300, 200>>],
    [h2h   |-> <<2300, 1700, 1500, 1000, 850, 400, 390, 0>>,
     total |-> <<900, 800, 700, 600, 500, 400, 300, 200>>] }

\* A table of n standings as normalizeTeams returns it.
Table(n, prof) ==
  [i \in 1..n |-> [position |-> i, team |-> TeamNames[i], owner |-> OwnerNames[i],
                   totalScore |-> prof.total[i], h2hPoints |-> prof.h2h[i],
                   value |-> 0, recent |-> ""]]

StandingsTables == {Table(n, prof) : n \in TeamCounts, prof \in Profiles}

\* The raw fixtures the lists are made of: 1 v 2 by owner, 2 v 1 by team name
\* in another spelling, 3 v 2 where only the team name of the home side joins,
\* a fixture whose home side joins to nothing, 6 v 7 by owner, 4 v 5 by team.
RawFixtures ==
  { [home_owner |-> "ann", away_owner |-> "bob"],
    [a_team |-> "Beta FC", b_team |-> " ALPHA "],
    [home_owner |-> "nobody", away_owner |-> "Bob", home |-> "Gamma", away |-> "Nowhere"],
    [team1 |-> "Ghosts", team2 |-> "Delta"],
    [owner1 |-> "fay", owner2 |-> "gus"],
    [home_team |-> "Delta", away_team |-> "Eps"] }

FixtureLists == UNION {[1..n -> RawFixtures] : n \in 0..MaxFixtures}

NoFixtures == [present |-> FALSE, list |-> <<>>]
FixtureArray(l) == [present |-> TRUE, list |-> l]

Leagues == {"Main", "Cup"}

\* The rivalry files: none, a rivalry of two owners, and a rivalry of two
\* teams scoped to the league "cup".
RivalrySamples ==
  { <<>>,
    << [a_owner |-> "Ann", b_owner |-> "bob"] >>,
    << [league |-> "cup", a_team |-> "Delta", b_team |-> "Eps"] >> }

\* String(x || "").trim().toLowerCase() on the strings of this model.
Lowered ==
  [x \in {"Alpha", " ALPHA ", "Beta FC", "Gamma", "Delta", "Eps", "Zeta", "Eta", "Theta",
          "Bob", "Ann", "Nowhere", "Ghosts", "Main", "Cup"} |->
     CASE x \in {"Alpha", " ALPHA "} -> "alpha"
       [] x = "Beta FC" -> "beta fc"
       [] x = "Gamma" -> "gamma"
       [] x = "Delta" -> "delta"
       [] x = "Eps" -> "eps"
       [] x = "Zeta" -> "zeta"
       [] x = "Eta" -> "eta"
       [] x = "Theta" -> "theta"
       [] x = "Bob" -> "bob"
       [] x = "Ann" -> "ann"
       [] x = "Nowhere" -> "nowhere"
       [] x = "Ghosts" -> "ghosts"
       [] x = "Main" -> "main"
       [] x = "Cup" -> "cup"]

normalizeStr(x) == IF x \in DOMAIN Lowered THEN Lowered[x] ELSE x

\* fx.a || fx.b || ...: undefined when no field is truthy; undefined is ""
\* here, which normalizeStr makes of it.
normalizeFixture(fx) ==
  [ aOwner |-> Truthy(fx, <<"home_owner", "a_owner", "owner_a", "owner1", "home_manager">>,
                      "", ""),
    bOwner |-> Truthy(fx, <<"away_owner", "b_owner", "owner_b", "owner2", "away_manager">>,
                      "", ""),
    aTeam  |-> Truthy(fx, <<"home_team", "a_team", "team_a", "team1", "home">>, "", ""),
    bTeam  |-> Truthy(fx, <<"away_team", "b_team", "team_b", "team2", "away">>, "", "") ]

Abs(x) == IF x < 0 THEN 0 - x ELSE x

\* byName[key] after the loop that fills byName: the standing stored last
\* under the key, as its index in the table; 0 is undefined.
byName(ts, key) ==
  LET hits == {i \in 1..Len(ts) :
                 normalizeStr(ts[i].owner) = key \/ normalizeStr(ts[i].team) = key}
  IN  IF hits = {} THEN 0 ELSE CHOOSE i \in hits : \A j \in hits : j <= i

\* byName[normalizeStr(owner)] || byName[normalizeStr(team)]
Joined(ts, owner, team) ==
  LET byOwner == byName(ts, normalizeStr(owner))
  IN  IF byOwner # 0 THEN byOwner ELSE byName(ts, normalizeStr(team))

\* r.f of a rivalry row, "" when the row has no such field.
Field(r, f) == IF f \in DOMAIN r THEN r[f] ELSE ""

RivalryRowMatchesMutant(r, lg, a, b) ==
  /\ ~(Field(r, "league") # "" /\ normalizeStr(Field(r, "league")) # normalizeStr(lg))
  /\ \/ normalizeStr(Field(r, "a_owner")) # "" /\ normalizeStr(Field(r, "a_owner")) = normalizeStr(a.owner)
     \/ normalizeStr(Field(r, "a_team")) # "" /\ normalizeStr(Field(r, "a_team")) = normalizeStr(a.team)
  /\ \/ normalizeStr(Field(r, "b_owner")) # "" /\ normalizeStr(Field(r, "b_owner")) = normalizeStr(b.owner)
     \/ normalizeStr(Field(r, "b_team")) # "" /\ normalizeStr(Field(r, "b_team")) = normalizeStr(b.team)

\* Whether row r of RIVALRIES matches the pair a, b in either order.
RivalryRowMatches(r, lg, a, b) ==
  LET ao == normalizeStr(a.owner)
      at == normalizeStr(a.team)
      bo == normalizeStr(b.owner)
      bt == normalizeStr(b.team)
      rao == normalizeStr(Field(r, "a_owner"))
      rat == normalizeStr(Field(r, "a_team"))
      rbo == normalizeStr(Field(r, "b_owner"))
      rbt == normalizeStr(Field(r, "b_team"))
      matchAB == /\ (rao # "" /\ rao = ao) \/ (rat # "" /\ rat = at)
                 /\ (rbo # "" /\ rbo = bo) \/ (rbt # "" /\ rbt = bt)
      matchBA == /\ (rbo # "" /\ rbo = ao) \/ (rbt # "" /\ rbt = at)
                 /\ (rao # "" /\ rao = bo) \/ (rat # "" /\ rat = bt)
  IN  /\ ~(Field(r, "league") # "" /\ normalizeStr(Field(r, "league")) # normalizeStr(lg))
      /\ matchAB \/ matchBA

\* rivalryMatches(league, a, b) is not null.
rivalryMatches(rivs, lg, a, b) ==
  \E k \in 1..Len(rivs) : RivalryRowMatches(rivs[k], lg, a, b)

TopZone(a, b) == a.position <= 6 /\ b.position <= 6
DropZoneMutant(a, b, n) == a.position >= n - 3 /\ b.position >= n - 3

\* a.position >= teams.length - 4 && b.position >= teams.length - 4
DropZone(a, b, n) == a.position >= n - 4 /\ b.position >= n - 4

\* The drama score of the pairing a, b in a table of n, in thousandths.
DramaScore(a, b, n, riv) ==
  1000 * (100 - Min(100, Abs(a.h2hPoints - b.h2hPoints)))
  + (a.totalScore + b.totalScore)
  + (IF TopZone(a, b) THEN 25000 ELSE 0)
  + (IF DropZone(a, b, n) THEN 20000 ELSE 0)
  + (IF riv THEN 100000 ELSE 0)

RECURSIVE ScoredFrom(_, _, _, _, _)
\* The array scored after the loop over fxs[k..].
ScoredFrom(ts, fxs, k, lg, rivs) ==
  IF k > Len(fxs) THEN <<>>
  ELSE LET nf == normalizeFixture(fxs[k])
           a == Joined(ts, nf.aOwner, nf.aTeam)
           b == Joined(ts, nf.bOwner, nf.bTeam)
           rest == ScoredFrom(ts, fxs, k + 1, lg, rivs)
       IN  IF a = 0 \/ b = 0 THEN rest
           ELSE LET riv == rivalryMatches(rivs, lg, ts[a], ts[b])
                IN  <<[a |-> ts[a], b |-> ts[b], riv |-> riv,
                       score |-> DramaScore(ts[a], ts[b], Len(ts), riv)]>> \o rest

RECURSIVE InsertScored(_, _)
\* s put into a list sorted by descending score, behind its equals.
InsertScored(s, sorted) ==
  IF sorted = <<>> THEN <<s>>
  ELSE IF s.score > Head(sorted).score THEN <<s>> \o sorted
       ELSE <<Head(sorted)>> \o InsertScored(s, Tail(sorted))

RECURSIVE SortScoredFrom(_, _, _)
\* scored.sort((x, y) => y.score - x.score)
SortScoredFrom(list, k, acc) ==
  IF k > Len(list) THEN acc ELSE SortScoredFrom(list, k + 1, InsertScored(list[k], acc))

\* s.a.team + "|" + s.b.team
PairKey(a, b) == <<a.team, b.team>>

Reason(s, n) ==
  IF s.riv THEN "rivalry"
  ELSE IF TopZone(s.a, s.b) THEN "europe"
  ELSE IF DropZone(s.a, s.b, n) THEN "drop"
  ELSE "momentum"

RECURSIVE PickLoop(_, _, _, _, _)
\* for (const s of scored) from scored[k] on, with the used keys and the
\* picks made so far.
PickLoop(scored, k, used, acc, n) ==
  IF k > Len(scored) THEN acc
  ELSE LET s == scored[k]
           key == PairKey(s.a, s.b)
       IN  IF key \in used THEN PickLoop(scored, k + 1, used, acc, n)
           ELSE LET more == Append(acc, [pair |-> <<s.a, s.b>>, label |-> Len(acc) + 1,
                                         reason |-> Reason(s, n)])
                IN  IF Len(more) >= MAX_PICKS THEN more
                    ELSE PickLoop(scored, k + 1, used \cup {key}, more, n)

\* The branch that scores the fixtures of the gameweek.
FixturePicks(ts, fxs, lg, rivs) ==
  PickLoop(SortScoredFrom(ScoredFrom(ts, fxs, 1, lg, rivs), 1, <<>>), 1, {}, <<>>, Len(ts))

\* Math.abs((a[key] || 0) - (b[key] || 0))
diff(a, b, key) == Abs(a[key] - b[key])

\* teams.slice(from, to) with 0-based from and exclusive to.
Slice(ts, from, to) == SubSeq(ts, from + 1, to)

RECURSIVE Scan(_, _, _, _, _)
\* The loop "if (v better than best) { best = v; pair = i }" from i on: sign 1
\* keeps the first largest value above bestVal, sign -1 the first smallest
\* below it; 0 when no value was better.
Scan(vals, i, best, bestVal, sign) ==
  IF i > Len(vals) THEN best
  ELSE IF sign * vals[i] > sign * bestVal THEN Scan(vals, i + 1, i, vals[i], sign)
       ELSE Scan(vals, i + 1, best, bestVal, sign)

\* The neighbour pair of a slice the scan chose, <<>> for null.
PairAt(slice, i) == IF i = 0 THEN <<>> ELSE <<slice[i], slice[i + 1]>>

\* Title chase: the best pair among the top 6, in thousandths against -1.
TitlePair(ts) ==
  LET top6 == Slice(ts, 0, Min(6, Len(ts)))
      vals == [i \in 1..(Len(top6) - 1) |->
                 1000 * (100 - diff(top6[i], top6[i + 1], "h2hPoints"))
                 + (top6[i].totalScore + top6[i + 1].totalScore)]
  IN  PairAt(top6, Scan(vals, 1, 0, -1000, 1))

\* Mid-table thriller: the smallest totalScore difference of the middle slice.
MidPair(ts) ==
  LET midStart == Min(7, Max(0, (Len(ts) \div 2) - 2))
      midSlice == Slice(ts, midStart, Min(midStart + 6, Len(ts)))
      vals == [i \in 1..(Len(midSlice) - 1) |->
                 diff(midSlice[i], midSlice[i + 1], "totalScore")]
  IN  PairAt(midSlice, Scan(vals, 1, 0, 1000000000, -1))

\* Relegation battle: the closest H2H points of the last 5.
RelPair(ts) ==
  LET bottom == Slice(ts, Max(0, Len(ts) - 5), Len(ts))
      vals == [i \in 1..(Len(bottom) - 1) |-> diff(bottom[i], bottom[i + 1], "h2hPoints")]
  IN  PairAt(bottom, Scan(vals, 1, 0, 1000000000, -1))

\* function add(pair, label, reason) on the state of unique and used; a null
\* pair is not added.
Add(st, pair, label, reason) ==
  IF pair = <<>> \/ PairKey(pair[1], pair[2]) \in st.used THEN st
  ELSE [unique |-> Append(st.unique, [pair |-> pair, label |-> label, reason |-> reason]),
        used   |-> st.used \cup {PairKey(pair[1], pair[2])}]

InsertByDiffMutant(e, sorted) == <<e>> \o sorted

RECURSIVE InsertByDiff(_, _)
InsertByDiff(e, sorted) ==
  IF sorted = <<>> THEN <<e>>
  ELSE IF e.d < Head(sorted).d THEN <<e>> \o sorted
       ELSE <<Head(sorted)>> \o InsertByDiff(e, Tail(sorted))

RECURSIVE SortByDiffFrom(_, _, _)
\* .sort((a, b) => a.d - b.d)
SortByDiffFrom(list, k, acc) ==
  IF k > Len(list) THEN acc ELSE SortByDiffFrom(list, k + 1, InsertByDiff(list[k], acc))

RECURSIVE FillLoop(_, _, _)
\* for (const {p} of byDiff) from byDiff[k] on.
FillLoop(byDiff, k, st) ==
  IF k > Len(byDiff) THEN st
  ELSE LET more == Add(st, byDiff[k].p, Len(st.unique) + 1, "filler")
       IN  IF Len(more.unique) >= MAX_PICKS THEN more ELSE FillLoop(byDiff, k + 1, more)

\* The picks made without fixtures.
HeuristicPicks(ts) ==
  LET neighbors == [i \in 1..(Len(ts) - 1) |-> <<ts[i], ts[i + 1]>>]
      st1 == Add([unique |-> <<>>, used |-> {}], TitlePair(ts), 1, "title")
      st2 == Add(st1, MidPair(ts), 2, "mid")
      st3 == Add(st2, RelPair(ts), 3, "relegation")
      open == SelectSeq(neighbors, LAMBDA p : PairKey(p[1], p[2]) \notin st3.used)
      byDiff == SortByDiffFrom([i \in 1..Len(open) |->
                                  [p |-> open[i], d |-> diff(open[i][1], open[i][2], "h2hPoints")]],
                               1, <<>>)
      st4 == IF Len(st3.unique) < MAX_PICKS THEN FillLoop(byDiff, 1, st3) ELSE st3
  IN  SubSeq(st4.unique, 1, Min(MAX_PICKS, Len(st4.unique)))

\* if (teams.length < 6) return [];
TooFewMutant(ts) == Len(ts) < MIN_TEAMS - 1
TooFew(ts) == Len(ts) < MIN_TEAMS

\* if (Array.isArray(fixtures) && fixtures.length)
HasFixturesMutant(fx) == fx.present /\ Len(fx.list) > MaxFixtures
HasFixtures(fx) == fx.present /\ Len(fx.list) > 0

selectDramaticMatchups(ts, lg, fx, rivs) ==
  IF TooFew(ts) THEN <<>>
  ELSE IF HasFixtures(fx) THEN FixturePicks(ts, fx.list, lg, rivs)
  ELSE HeuristicPicks(ts)

InitMatch ==
  /\ mpc = "input"
  /\ standings \in StandingsTables
  /\ league \in Leagues
  /\ fixtures \in {NoFixtures} \cup {FixtureArray(l) : l \in FixtureLists}
  /\ rivalries \in RivalrySamples
  /\ picks = <<>>

IdleMatch ==
  /\ mpc = "off"
  /\ standings = <<>>
  /\ league = "Main"
  /\ fixtures = NoFixtures
  /\ rivalries = <<>>
  /\ picks = <<>>

\* const picks = selectDramaticMatchups(teams, { league, fixtures, gw });
SelectMatchups ==
  /\ mpc = "input"
  /\ picks' = selectDramaticMatchups(standings, league, fixtures, rivalries)
  /\ mpc' = "done"
  /\ UNCHANGED <<standings, league, fixtures, rivalries>>
  /\ UNCHANGED <<retryVars, renderVars, sectionVars, teamVars, priceVars, confVars, predVars, remVars, jobVars, dailyVars, loopVars, dlVars, rivVars, timesVars, mgrVars, watchVars, sumVars, pubVars, pageVars, armVars>>

(***************************************************************************)
(*                 Properties of the drama-scored matchups                 *)
(***************************************************************************)

\* Whether standing t is the one a fixture side names by owner or by team.
Matches(t, owner, team) ==
  {normalizeStr(t.owner), normalizeStr(t.team)}
    \cap ({normalizeStr(owner), normalizeStr(team)} \ {""}) # {}

\* Both sides of the fixture join to a standing of the table.
FixtureJoins(fx, ts) ==
  LET nf == normalizeFixture(fx)
  IN  /\ \E i \in 1..Len(ts) : Matches(ts[i], nf.aOwner, nf.aTeam)
      /\ \E j \in 1..Len(ts) : Matches(ts[j], nf.bOwner, nf.bTeam)

\* C11: with fewer than 6 teams selectDramaticMatchups returns an empty list,
\* whatever the fixtures and the rivalries are.
C11_FewTeamsNoPicks ==
  mpc = "done" /\ Len(standings) < 6 => picks = <<>>

\* C11 witness: a call with 5 teams, a configured rivalry and a fixture list
\* that holds a fixture joining on both sides returned nothing.
C11_Witness ==
  /\ mpc = "done"
  /\ Len(standings) = 5
  /\ rivalries # <<>>
  /\ fixtures.present
  /\ \E k \in 1..Len(fixtures.list) : FixtureJoins(fixtures.list[k], standings)
  /\ picks = <<>>

PickScore(p) ==
  DramaScore(p.pair[1], p.pair[2], Len(standings),
             rivalryMatches(rivalries, league, p.pair[1], p.pair[2]))

PicksBounded == mpc = "done" => Len(picks) <= 3

PicksDescending ==
  mpc = "done" /\ HasFixtures(fixtures) =>
    \A p \in 1..(Len(picks) - 1) : PickScore(picks[p]) >= PickScore(picks[p + 1])

PicksDistinctPairs ==
  mpc = "done" =>
    \A p, q \in 1..Len(picks) :
      p # q => {picks[p].pair[1].team, picks[p].pair[2].team}
                 # {picks[q].pair[1].team, picks[q].pair[2].team}

\* C13: selectDramaticMatchups returns at most 3 picks, in non-increasing
\* order of drama score, no two of them for the same unordered pair of team
\* names.
C13_ThreeDistinctPairs == PicksBounded /\ PicksDescending /\ PicksDistinctPairs

(***************************************************************************)
(*                          Price normalization                            *)
(***************************************************************************)

\* A price string has at most MaxChars characters.
MaxChars == 3

TENTHS_FROM == 20

RECURSIVE Pow10(_)
Pow10(n) == IF n = 0 THEN 1 ELSE 10 * Pow10(n - 1)

\* A finite number is held as a whole count of 1/Scale, which is exact for
\* every string of MaxChars characters and for its tenth.
Scale == Pow10(MaxChars)

NaN == [nan |-> TRUE, n |-> 0]
Fin(c) == [nan |-> FALSE, n |-> c]

\* The number with the given count of tenths, e.g. Tenths(55) is 5.5.
Tenths(t) == Fin((t * Scale) \div 10)

PriceChars == {"0", "1", "2", "5", "9", ".", "-", "m"}

PriceStrings == UNION {[1..n -> PriceChars] : n \in 0..MaxChars}

Null == [t |-> "null"]
Num(x) == [t |-> "number", n |-> x]
Str(s) == [t |-> "string", s |-> s]

\* The arguments of toPriceFloat: null, numbers (105, 5.5, 19, 20, 19.5, 20.5,
\* 0, -30, NaN) and strings.
ToPriceFloatInputs ==
  {Null}
  \cup {Num(Tenths(t)) : t \in {1050, 55, 190, 200, 195, 205, 0, -300}}
  \cup {Num(NaN)}
  \cup {Str(s) : s \in PriceStrings}

\* The arguments of parseNumberLikePrice: null and the text of a table cell.
ParseInputs == {Null} \cup {Str(s) : s \in PriceStrings}

\* String(x).replace(/[^\d.]/g, ""): the digits and dots of s.
StripNonNumeric(s) == SelectSeq(s, LAMBDA c : Digit(c) >= 0 \/ c = ".")

\* Number(s) for a string of digits and dots: "" is 0, "5." is 5, ".5" is
\* 0.5, "." and a string with two dots are NaN.
NumberOfDecimal(s) ==
  LET dots == {i \in 1..Len(s) : s[i] = "."}
  IN  IF s = <<>> THEN Fin(0)
      ELSE IF Cardinality(dots) > 1 \/ Len(s) = Cardinality(dots) THEN NaN
      ELSE IF dots = {} THEN Fin(Digits(s) * Scale)
      ELSE LET d == CHOOSE i \in dots : TRUE
               whole == SubSeq(s, 1, d - 1)
               frac == SubSeq(s, d + 1, Len(s))
           IN  Fin(Digits(whole) * Scale + Digits(frac) * (Scale \div Pow10(Len(frac))))

\* Number.isInteger(n) && n >= 20
IsTenthsMutant(x) == ~x.nan /\ x.n % Scale = 0 /\ x.n > TENTHS_FROM * Scale
IsTenths(x) == ~x.nan /\ x.n % Scale = 0 /\ x.n >= TENTHS_FROM * Scale

\* Number.isInteger(n) && n >= 20 ? n / 10 : n
TenthsRule(x) == IF IsTenths(x) THEN Fin(x.n \div 10) ELSE x

toPriceFloat(x) ==
  IF x.t = "null" THEN NaN
  ELSE LET n == IF x.t = "number" THEN x.n ELSE NumberOfDecimal(StripNonNumeric(x.s))
       IN  IF n.nan THEN NaN ELSE TenthsRule(n)

parseNumberLikePrice(x) ==
  IF x.t = "null" THEN NaN
  ELSE TenthsRule(NumberOfDecimal(StripNonNumeric(x.s)))

InitPrice ==
  /\ qpc = "input"
  /\ \/ priceFn = "toPriceFloat" /\ priceIn \in ToPriceFloatInputs
     \/ priceFn = "parseNumberLikePrice" /\ priceIn \in ParseInputs
  /\ priceOut = NaN

IdlePrice ==
  /\ qpc = "off"
  /\ priceFn = "toPriceFloat"
  /\ priceIn = Null
  /\ priceOut = NaN

CallToPriceFloat ==
  /\ qpc = "input"
  /\ priceFn = "toPriceFloat"
  /\ priceOut' = toPriceFloat(priceIn)
  /\ qpc' = "done"
  /\ UNCHANGED <<priceFn, priceIn>>
  /\ UNCHANGED <<retryVars, renderVars, sectionVars, teamVars, matchVars, confVars, predVars, remVars, jobVars, dailyVars, loopVars, dlVars, rivVars, timesVars, mgrVars, watchVars, sumVars, pubVars, pageVars, armVars>>

CallParseNumberLikePrice ==
  /\ qpc = "input"
  /\ priceFn = "parseNumberLikePrice"
  /\ priceOut' = parseNumberLikePrice(priceIn)
  /\ qpc' = "done"
  /\ UNCHANGED <<priceFn, priceIn>>
  /\ UNCHANGED <<retryVars, renderVars, sectionVars, teamVars, matchVars, confVars, predVars, remVars, jobVars, dailyVars, loopVars, dlVars, rivVars, timesVars, mgrVars, watchVars, sumVars, pubVars, pageVars, armVars>>

\* The number an argument holds: the number itself, or the number written
\* by the digits and dots of the string.
HeldNumber(x) ==
  IF x.t = "null" THEN NaN
  ELSE IF x.t = "number" THEN x.n
  ELSE NumberOfDecimal(StripNonNumeric(x.s))

\* C15: toPriceFloat and parseNumberLikePrice divide the number by 10 exactly
\* when it is an integer of at least 20 and return every other finite number
\* unchanged; 105 gives 10.5, 5.5 stays 5.5, 19 stays 19 and 20 gives 2.
C15_TenthsRule ==
  qpc = "done" =>
    LET v == HeldNumber(priceIn)
    IN  /\ v.nan <=> priceOut.nan
        /\ ~v.nan =>
             /\ ~priceOut.nan
             /\ priceOut.n = IF v.n % Scale = 0 /\ v.n >= 20 * Scale
                             THEN v.n \div 10 ELSE v.n
             /\ v.n = 105 * Scale => 10 * priceOut.n = 105 * Scale
             /\ 10 * v.n = 55 * Scale => priceOut = v
             /\ v.n = 19 * Scale => priceOut = v
             /\ v.n = 20 * Scale => priceOut.n = 2 * Scale

\* C15 witness: parseNumberLikePrice turned the cell "20" into 2.
C15_Witness ==
  /\ qpc = "done"
  /\ priceFn = "parseNumberLikePrice"
  /\ priceIn = Str(<<"2", "0">>)
  /\ priceOut = Fin(2 * Scale)

(***************************************************************************)
(*                       Confirmed price changes                           *)
(***************************************************************************)

\* The confirmed table has at most MaxPriceRows rows, and the poster is
\* called at most MaxPolls times.
MaxPriceRows == 2
MaxPolls == 2

SIG_ROWS == 100

PriceRow(name, team, old, next) ==
  [name |-> name, team |-> team, old |-> Tenths(old), next |-> Tenths(next)]

\* The rows parseConfirmedTable can give: two risers, the first of them once
\* more in another spelling, a faller without a team, an unchanged row.
ParsedRows ==
  { PriceRow("Salah", "LIV", 130, 131),
    PriceRow("SALAH", "liv", 130, 131),
    PriceRow("Haaland", "MCI", 140, 141),
    PriceRow("Kane", "", 110, 109),
    PriceRow("Saka", "ARS", 90, 90) }

ParsedTables == UNION {[1..n -> ParsedRows] : n \in 0..MaxPriceRows}

\* String(s || "").toLowerCase().normalize("NFD") without diacritics and
\* without every character that is not a-z or 0-9, on the names of this model.
normalizePlayerKey(s) ==
  CASE s \in {"Salah", "SALAH", " salah "} -> "salah"
    [] s = "Haaland" -> "haaland"
    [] s = "Kane" -> "kane"
    [] s = "Saka" -> "saka"
    [] OTHER -> s

\* (p.team || "").toLowerCase()
toLowerCase(s) ==
  CASE s = "LIV" -> "liv" [] s = "MCI" -> "mci" [] s = "ARS" -> "ars" [] OTHER -> s

\* rows.filter(r => r.next > r.old) and rows.filter(r => r.next < r.old)
IsRiserMutant(r) == r.next.n >= r.old.n
IsRiser(r) == r.next.n > r.old.n
IsFaller(r) == r.next.n < r.old.n

\* key(p) of the "dedup safety": name key, team, old->next.
DedupKey(p) == <<normalizePlayerKey(p.name), toLowerCase(p.team), p.old, p.next>>

\* arr.filter((x, i, self) => self.findIndex(y => key(y) === key(x)) === i)
uniq(arr) ==
  LET firsts == {i \in 1..Len(arr) : \A j \in 1..(i - 1) : DedupKey(arr[j]) # DedupKey(arr[i])}
  IN  SelectSeq([i \in 1..Len(arr) |-> [i |-> i, x |-> arr[i]]], LAMBDA e : e.i \in firsts)

Unwrap(es) == [i \in 1..Len(es) |-> es[i].x]

\* The classification at the end of fetchConfirmedPriceChanges.
Classify(rs) ==
  [ok |-> TRUE,
   risers  |-> Unwrap(uniq(SelectSeq(rs, IsRiser))),
   fallers |-> Unwrap(uniq(SelectSeq(rs, IsFaller)))]

\* fetchConfirmedPriceChanges threw (network, HTTP status, challenge page).
FetchFailed == [ok |-> FALSE, risers |-> <<>>, fallers |-> <<>>]

\* One entry of the signature: name key | team | toPriceFloat(old)->toPriceFloat(next).
SigEntry(x) ==
  <<normalizePlayerKey(x.name), toLowerCase(x.team), toPriceFloat(Num(x.old)),
    toPriceFloat(Num(x.next))>>

\* JSON.stringify({ r: risers.map(...).slice(0, 100), f: fallers.map(...).slice(0, 100) })
ConfSig(c) ==
  [set |-> TRUE,
   r |-> SubSeq([i \in 1..Len(c.risers) |-> SigEntry(c.risers[i])], 1,
                Min(SIG_ROWS, Len(c.risers))),
   f |-> SubSeq([i \in 1..Len(c.fallers) |-> SigEntry(c.fallers[i])], 1,
                Min(SIG_ROWS, Len(c.fallers)))]

\* The initial value "" of the two last-signature variables.
NoSig == [set |-> FALSE, r |-> <<>>, f |-> <<>>]

\* if (!sig || sig === __LAST_CONF_SIG) return;
ConfChanged(sig, last) == sig # last

InitConf ==
  /\ lastConfSig = NoSig
  /\ confPolls = 0
  /\ parsed = <<>>
  /\ chg = FetchFailed
  /\ confSent = FALSE
  /\ prevChg = FetchFailed
  /\ prevConfSent = FALSE

IdleConf == InitConf

\* One call of postConfirmedIfChanged whose fetch succeeds: classify the rows,
\* build the signature, return if it is the last one, else record it and send
\* the message (which is never blank).
PollConfirmed ==
  /\ confPolls < MaxPolls
  /\ \E rs \in ParsedTables :
       LET c == Classify(rs)
           sig == ConfSig(c)
       IN  /\ parsed' = rs
           /\ chg' = c
           /\ confSent' = ConfChanged(sig, lastConfSig)
           /\ lastConfSig' = IF ConfChanged(sig, lastConfSig) THEN sig ELSE lastConfSig
  /\ confPolls' = confPolls + 1
  /\ prevChg' = chg
  /\ prevConfSent' = confSent
  /\ UNCHANGED <<retryVars, renderVars, sectionVars, teamVars, matchVars, priceVars, predVars, remVars, jobVars, dailyVars, loopVars, dlVars, rivVars, timesVars, mgrVars, watchVars, sumVars, pubVars, pageVars, armVars>>

\* One call whose fetch throws: the catch block logs, nothing else happens.
PollConfirmedFails ==
  /\ confPolls < MaxPolls
  /\ parsed' = <<>>
  /\ chg' = FetchFailed
  /\ confSent' = FALSE
  /\ confPolls' = confPolls + 1
  /\ prevChg' = chg
  /\ prevConfSent' = confSent
  /\ UNCHANGED lastConfSig
  /\ UNCHANGED <<retryVars, renderVars, sectionVars, teamVars, matchVars, priceVars, predVars, remVars, jobVars, dailyVars, loopVars, dlVars, rivVars, timesVars, mgrVars, watchVars, sumVars, pubVars, pageVars, armVars>>

\* The rows of a list, as a set.
Rows(list) == {list[i] : i \in 1..Len(list)}

\* C14 (as stated): every parsed row with new > old is in risers and not in
\* fallers, every row with new < old is in fallers and not in risers, and a
\* row with old = new is in neither list.
C14_Partition ==
  confPolls > 0 /\ chg.ok =>
    \A i \in 1..Len(parsed) :
      LET r == parsed[i]
      IN  /\ r.next.n > r.old.n => r \in Rows(chg.risers) /\ r \notin Rows(chg.fallers)
          /\ r.next.n < r.old.n => r \in Rows(chg.fallers) /\ r \notin Rows(chg.risers)
          /\ r.next.n = r.old.n => r \notin Rows(chg.risers) \cup Rows(chg.fallers)

\* C14 (amended): risers holds only parsed rows with new > old and fallers
\* only parsed rows with new < old, so no row is in both and a row with
\* old = new is in neither; every parsed row with new > old has a row of the
\* same key (name key, lower-case team, old, new) in risers and every row
\* with new < old one in fallers, and neither list holds a key twice: of the
\* rows that share a key only the first is kept.
C14_PartitionByKey ==
  confPolls > 0 /\ chg.ok =>
    /\ \A r \in Rows(chg.risers) : r \in Rows(parsed) /\ r.next.n > r.old.n
    /\ \A r \in Rows(chg.fallers) : r \in Rows(parsed) /\ r.next.n < r.old.n
    /\ \A i \in 1..Len(parsed) :
         LET r == parsed[i]
             first == parsed[CHOOSE j \in 1..i :
                               /\ DedupKey(parsed[j]) = DedupKey(r)
                               /\ \A k \in 1..(j - 1) : DedupKey(parsed[k]) # DedupKey(r)]
             kept(list) == {x \in Rows(list) : DedupKey(x) = DedupKey(r)}
         IN  /\ r.next.n > r.old.n => kept(chg.risers) = {first}
             /\ r.next.n < r.old.n => kept(chg.fallers) = {first}
    /\ \A i, j \in 1..Len(chg.risers) :
         i # j => DedupKey(chg.risers[i]) # DedupKey(chg.risers[j])
    /\ \A i, j \in 1..Len(chg.fallers) :
         i # j => DedupKey(chg.fallers[i]) # DedupKey(chg.fallers[j])

\* C14 witness: the table held a riser twice, in two spellings, and risers
\* holds the first of the two rows only.
C14_Witness ==
  /\ confPolls > 0
  /\ chg.ok
  /\ Len(parsed) = 2
  /\ parsed[1] # parsed[2]
  /\ DedupKey(parsed[1]) = DedupKey(parsed[2])
  /\ chg.risers = <<parsed[1]>>
  /\ chg.fallers = <<>>

\* C16: two consecutive calls of postConfirmedIfChanged whose fetched risers
\* and fallers are the same sets of rows, in whatever order, send exactly one
\* message: the second call sends none, and of the first two calls the first
\* one sends.
C16_SameSetsOneMessage ==
  /\ confPolls >= 2
  /\ prevChg.ok /\ chg.ok
  /\ Rows(prevChg.risers) = Rows(chg.risers)
  /\ Rows(prevChg.fallers) = Rows(chg.fallers)
  => /\ ~confSent
     /\ confPolls = 2 => prevConfSent

(***************************************************************************)
(*                       Predicted price changes                           *)
(***************************************************************************)

PRED_SIG_ROWS == 30

PredRow(name, team, price) == [name |-> name, team |-> team, price |-> Tenths(price)]

\* The predicted risers: a player, the same player in another spelling, the
\* same player at another price, and another player without a team.
PredRisers ==
  { PredRow("Salah", "LIV", 130), PredRow(" salah ", "liv", 130),
    PredRow("Salah", "LIV", 131), PredRow("Kane", "", 110) }

PredFallers == { PredRow("Saka", "ARS", 90) }

RiserLists == UNION {[1..n -> PredRisers] : n \in 0..MaxPriceRows}
FallerLists == {<<>>} \cup {<<x>> : x \in PredFallers}

\* price.toFixed(1) as a count of tenths, rounded half up; "" (-1 here) for
\* a price that is not finite.
toFixed1(x) == IF x.nan THEN -1 ELSE (10 * x.n + Scale \div 2) \div Scale

\* String(s || "").trim().toLowerCase() on the names and teams of this model.
trimLower(s) ==
  CASE s \in {"Salah", " salah "} -> "salah"
    [] s = "Kane" -> "kane"
    [] s = "Saka" -> "saka"
    [] OTHER -> toLowerCase(s)

canonKey(p) == <<trimLower(p.name), trimLower(p.team), toFixed1(p.price)>>

\* The order of the strings of this model under Array.prototype.sort.
StringOrder == <<"", "ars", "kane", "liv", "mci", "saka", "salah">>
Rank(s) == CHOOSE i \in 1..Len(StringOrder) : StringOrder[i] = s

\* key k sorts strictly before key l: the keys "name|team|price" compared as
\* strings (all prices of the model have the same number of digits).
KeyBefore(k, l) ==
  \/ Rank(k[1]) < Rank(l[1])
  \/ k[1] = l[1] /\ Rank(k[2]) < Rank(l[2])
  \/ k[1] = l[1] /\ k[2] = l[2] /\ k[3] < l[3]

\* [...new Set(keys)]: the distinct keys in the order of their first occurrence.
Distinct(keys) ==
  LET firsts == {i \in 1..Len(keys) : \A j \in 1..(i - 1) : keys[j] # keys[i]}
  IN  Unwrap(SelectSeq([i \in 1..Len(keys) |-> [i |-> i, x |-> keys[i]]],
                       LAMBDA e : e.i \in firsts))

RECURSIVE InsertKey(_, _)
InsertKey(k, sorted) ==
  IF sorted = <<>> THEN <<k>>
  ELSE IF KeyBefore(k, Head(sorted)) THEN <<k>> \o sorted
       ELSE <<Head(sorted)>> \o InsertKey(k, Tail(sorted))

RECURSIVE SortKeysFrom(_, _, _)
SortKeysFrom(keys, i, acc) ==
  IF i > Len(keys) THEN acc ELSE SortKeysFrom(keys, i + 1, InsertKey(keys[i], acc))

\* .sort()
SortKeysMutant(keys) == keys
SortKeys(keys) == SortKeysFrom(keys, 1, <<>>)

\* [...new Set(list.slice(0, 30).map(canonKey))].sort()
KeyList(list) ==
  LET head == SubSeq(list, 1, Min(PRED_SIG_ROWS, Len(list)))
  IN  SortKeys(Distinct([i \in 1..Len(head) |-> canonKey(head[i])]))

\* `r=${rSet.join(",")}&f=${fSet.join(",")}`
PredSig(p) == [set |-> TRUE, r |-> KeyList(p.risers), f |-> KeyList(p.fallers)]

InitPred ==
  /\ lastPredSig = NoSig
  /\ predPolls = 0
  /\ pred = FetchFailed
  /\ predSent = FALSE
  /\ sigBefore = NoSig

IdlePred == InitPred

\* One call of postPredictedIfChanged whose fetch succeeds: build the
\* signature, return if it is the last one, else record it and send the
\* message (which is never blank).
PollPredicted ==
  /\ predPolls < MaxPolls
  /\ \E rs \in RiserLists, fs \in FallerLists :
       LET p == [ok |-> TRUE, risers |-> rs, fallers |-> fs]
           sig == PredSig(p)
       IN  /\ pred' = p
           /\ predSent' = (sig # lastPredSig)
           /\ lastPredSig' = IF sig # lastPredSig THEN sig ELSE lastPredSig
  /\ sigBefore' = lastPredSig
  /\ predPolls' = predPolls + 1
  /\ UNCHANGED <<retryVars, renderVars, sectionVars, teamVars, matchVars, priceVars, confVars, remVars, jobVars, dailyVars, loopVars, dlVars, rivVars, timesVars, mgrVars, watchVars, sumVars, pubVars, pageVars, armVars>>

\* One call whose fetch throws: the catch block logs, nothing else happens.
PollPredictedFails ==
  /\ predPolls < MaxPolls
  /\ pred' = FetchFailed
  /\ predSent' = FALSE
  /\ sigBefore' = lastPredSig
  /\ predPolls' = predPolls + 1
  /\ UNCHANGED lastPredSig
  /\ UNCHANGED <<retryVars, renderVars, sectionVars, teamVars, matchVars, priceVars, confVars, remVars, jobVars, dailyVars, loopVars, dlVars, rivVars, timesVars, mgrVars, watchVars, sumVars, pubVars, pageVars, armVars>>

\* The canonical keys of a list, as a set.
KeySet(list) == {canonKey(list[i]) : i \in 1..Len(list)}

\* C17: a poll of postPredictedIfChanged sends a message if and only if its
\* fetch succeeded and the sets of canonical keys of its risers and of its
\* fallers differ from those of the signature recorded by the previous
\* sending poll (or no poll has sent yet); the signature recorded is that of
\* the latest sending poll.  The order and the repetition of rows play no part.
C17_SendsIffSignatureChanged ==
  predPolls > 0 =>
    /\ predSent <=>
         /\ pred.ok
         /\ \/ ~sigBefore.set
            \/ KeySet(pred.risers) # Rows(sigBefore.r)
            \/ KeySet(pred.fallers) # Rows(sigBefore.f)
    /\ predSent =>
         /\ lastPredSig.set
         /\ Rows(lastPredSig.r) = KeySet(pred.risers)
         /\ Rows(lastPredSig.f) = KeySet(pred.fallers)
    /\ ~predSent => lastPredSig = sigBefore

\* C17 witness: the second poll returned the two keys of the recorded
\* signature in the other order, one of them in another spelling, and sent
\* nothing.
C17_Witness ==
  /\ predPolls = 2
  /\ pred.ok
  /\ ~predSent
  /\ Len(pred.risers) = 2
  /\ pred.risers[2].name = " salah "
  /\ lastPredSig.r = <<canonKey(pred.risers[2]), canonKey(pred.risers[1])>>
  /\ canonKey(pred.risers[1]) # canonKey(pred.risers[2])

(***************************************************************************)
(*                          Deadline reminders                             *)
(*  scheduleAt and clearReminders (src/index.js 1512-1518, 2247-2261;     *)
(*  src/unnamed/part_000 716-719, 941-960).  Times are in whole seconds:   *)
(*  the millisecond values of the code do not fit TLC's integers.          *)
(***************************************************************************)

MaxTicks == 3

MaxTimers == 2

MS_PER_SECOND == 1000

\* 60 * 60 * 1000 milliseconds.
HOUR == 3600

DAY == 24 * HOUR

\* The largest delay setTimeout accepts, in milliseconds: a delay above it,
\* or below 1, is replaced by 1 millisecond.
TIMEOUT_MAX == 2147483647

\* The amounts by which the clock advances between two steps.
ClockSteps == {1, HOUR, 30 * DAY}

\* The targets scheduleAt is called with, relative to the clock.
TargetOffsets == {0 - HOUR, 0, 1, HOUR, 30 * DAY}

NoCall == [called |-> FALSE, when |-> 0, at |-> 0, armed |-> FALSE]

\* The delay setTimeout arms the timer with, for a delay of s > 0 whole
\* seconds; the replacement delay of 1 millisecond is 0 whole seconds.
setTimeoutDelay(s) == IF s > TIMEOUT_MAX \div MS_PER_SECOND THEN 0 ELSE s

\* What scheduleAt subtracts from the target: Date.now() in index.js, the
\* constant now in part_000.
SchedulingNow == IF remRevision = "index" THEN rclock ELSE capturedNow

InitRem ==
  /\ remRevision \in {"index", "part_000"}
  /\ rclock = 0
  /\ rticks = 0
  /\ capturedNow = 0
  /\ timers = <<>>
  /\ scheduledTimeouts = <<>>
  /\ lastCall = NoCall

IdleRem ==
  /\ remRevision = "index"
  /\ rclock = 0
  /\ rticks = 0
  /\ capturedNow = 0
  /\ timers = <<>>
  /\ scheduledTimeouts = <<>>
  /\ lastCall = NoCall

\* Time passes.
Tick ==
  /\ rticks < MaxTicks
  /\ \E d \in ClockSteps : rclock' = rclock + d
  /\ rticks' = rticks + 1
  /\ UNCHANGED <<remRevision, capturedNow, timers, scheduledTimeouts, lastCall>>
  /\ UNCHANGED <<retryVars, renderVars, sectionVars, teamVars, matchVars, priceVars, confVars, predVars, jobVars, dailyVars, loopVars, dlVars, rivVars, timesVars, mgrVars, watchVars, sumVars, pubVars, pageVars, armVars>>

\* scheduleDeadlineReminders takes now and calls clearReminders(): every
\* timer of __scheduledTimeouts that has not fired is cancelled.
ClearReminders ==
  /\ capturedNow' = rclock
  /\ timers' = [i \in 1..Len(timers) |->
                  IF timers[i].state = "armed"
                     /\ \E k \in 1..Len(scheduledTimeouts) : scheduledTimeouts[k] = i
                  THEN [timers[i] EXCEPT !.state = "cleared"]
                  ELSE timers[i]]
  /\ scheduledTimeouts' = <<>>
  /\ UNCHANGED <<remRevision, rclock, rticks, lastCall>>
  /\ UNCHANGED <<retryVars, renderVars, sectionVars, teamVars, matchVars, priceVars, confVars, predVars, jobVars, dailyVars, loopVars, dlVars, rivVars, timesVars, mgrVars, watchVars, sumVars, pubVars, pageVars, armVars>>

\* One call scheduleAt(when, label).
ScheduleAt ==
  /\ Len(timers) < MaxTimers
  /\ \E off \in TargetOffsets :
       LET when == rclock + off
           ms   == when - SchedulingNow
       IN  /\ lastCall' = [called |-> TRUE, when |-> when, at |-> rclock, armed |-> ms > 0]
           /\ IF ms <= 0
              THEN UNCHANGED <<timers, scheduledTimeouts>>
              ELSE /\ timers' = Append(timers,
                                   [when |-> when, armedAt |-> rclock,
                                    delay |-> setTimeoutDelay(ms),
                                    state |-> "armed", runs |-> 0, firedAt |-> 0])
                   /\ scheduledTimeouts' = Append(scheduledTimeouts, Len(timers) + 1)
  /\ UNCHANGED <<remRevision, rclock, rticks, capturedNow>>
  /\ UNCHANGED <<retryVars, renderVars, sectionVars, teamVars, matchVars, priceVars, confVars, predVars, jobVars, dailyVars, loopVars, dlVars, rivVars, timesVars, mgrVars, watchVars, sumVars, pubVars, pageVars, armVars>>

\* A timer whose delay has elapsed runs its callback: the reminder is sent
\* inside try/catch.
TimerFires ==
  /\ \E i \in 1..Len(timers) :
       /\ timers[i].state = "armed"
       /\ rclock >= timers[i].armedAt + timers[i].delay
       /\ timers' = [timers EXCEPT ![i] = [@ EXCEPT !.state = "fired",
                                                    !.runs = @ + 1,
                                                    !.firedAt = rclock]]
  /\ UNCHANGED <<remRevision, rclock, rticks, capturedNow, scheduledTimeouts, lastCall>>
  /\ UNCHANGED <<retryVars, renderVars, sectionVars, teamVars, matchVars, priceVars, confVars, predVars, jobVars, dailyVars, loopVars, dlVars, rivVars, timesVars, mgrVars, watchVars, sumVars, pubVars, pageVars, armVars>>

\* No call of scheduleAt arms a timer for a target that is not strictly in
\* the future when the call runs.
NoTimerForPastTarget == lastCall.called /\ lastCall.armed => lastCall.when > lastCall.at

\* No callback runs twice.
RunsAtMostOnce == \A i \in 1..Len(timers) : timers[i].runs <= 1

\* No callback runs before its target instant.
NotBeforeTarget ==
  \A i \in 1..Len(timers) : timers[i].state = "fired" => timers[i].firedAt >= timers[i].when

\* No callback runs after clearReminders cancelled its timer.
ClearedNeverRuns ==
  \A i \in 1..Len(timers) : timers[i].state = "cleared" => timers[i].runs = 0

\* C18: scheduleAt arms no timer when the target instant is not strictly in
\* the future at scheduling time; otherwise its callback runs at most once,
\* not before the target instant, and not at all if clearReminders ran first.
C18_OneShot ==
  /\ NoTimerForPastTarget
  /\ RunsAtMostOnce
  /\ NotBeforeTarget
  /\ ClearedNeverRuns

(***************************************************************************)
(*                          Recurring schedulers                           *)
(*  scheduleWeeklyInTz, scheduleDailyInTz and scheduleAtLocalTimes         *)
(*  (src/index.js 859-876, 891-906, 943-957): the same loop around three   *)
(*  delay functions.  Delays are in minutes; the delay functions read the  *)
(*  system clock, so here their result is any value of their range.        *)
(***************************************************************************)

MaxFirings == 3

MINUTES_PER_DAY == 24 * 60

JobKinds == {"weekly", "daily", "localTimes"}

\* Results of msUntilNextWeekly, msUntilNextDaily and msUntilNext: each is
\* Math.max(0, ...) of a delay to a wall-clock time at most a week, or at
\* most a day, ahead.
msUntilNextSamples(kind) ==
  IF kind = "weekly"
  THEN {0, 1, MINUTES_PER_DAY, 7 * MINUTES_PER_DAY}
  ELSE {0, 1, MINUTES_PER_DAY}

Counted(n) == IF n < MaxFirings THEN n + 1 ELSE n

\* The number of armed timers once the handler of a firing has settled:
\* the finally block calls scheduleNext() (loop()) whether or not fn threw.
FinallyMutant(threw, p) == IF threw THEN p ELSE p + 1

Finally(threw, p) == p + 1

InitJob ==
  /\ jobKind \in JobKinds
  /\ jpc = "idle"
  /\ pending = 0
  /\ jobMs = 0
  /\ firings = 0
  /\ jobErrors = 0
  /\ lastSettle = "none"

IdleJob ==
  /\ jobKind = "weekly"
  /\ jpc = "idle"
  /\ pending = 0
  /\ jobMs = 0
  /\ firings = 0
  /\ jobErrors = 0
  /\ lastSettle = "none"

\* The scheduler is called: it defines scheduleNext (loop) and calls it once.
StartJob ==
  /\ jpc = "idle"
  /\ \E ms \in msUntilNextSamples(jobKind) : jobMs' = ms
  /\ pending' = pending + 1
  /\ jpc' = "armed"
  /\ UNCHANGED <<jobKind, firings, jobErrors, lastSettle>>
  /\ UNCHANGED <<retryVars, renderVars, sectionVars, teamVars, matchVars, priceVars, confVars, predVars, remVars, dailyVars, loopVars, dlVars, rivVars, timesVars, mgrVars, watchVars, sumVars, pubVars, pageVars, armVars>>

\* The timer's delay elapses: its callback starts and awaits fn().
TimerElapses ==
  /\ jpc = "armed"
  /\ pending > 0
  /\ pending' = pending - 1
  /\ jpc' = "running"
  /\ firings' = Counted(firings)
  /\ UNCHANGED <<jobKind, jobMs, jobErrors, lastSettle>>
  /\ UNCHANGED <<retryVars, renderVars, sectionVars, teamVars, matchVars, priceVars, confVars, predVars, remVars, dailyVars, loopVars, dlVars, rivVars, timesVars, mgrVars, watchVars, sumVars, pubVars, pageVars, armVars>>

\* What follows the await of fn(): the catch block logs when fn threw, and
\* the finally block computes the next delay and arms the next timer.
Settle(threw) ==
  /\ jpc = "running"
  /\ jobErrors' = IF threw THEN Counted(jobErrors) ELSE jobErrors
  /\ lastSettle' = IF threw THEN "threw" ELSE "resolved"
  /\ pending' = Finally(threw, pending)
  /\ IF pending' > pending
     THEN /\ \E ms \in msUntilNextSamples(jobKind) : jobMs' = ms
          /\ jpc' = "armed"
     ELSE /\ jobMs' = jobMs
          /\ jpc' = "stopped"
  /\ UNCHANGED <<jobKind, firings>>
  /\ UNCHANGED <<retryVars, renderVars, sectionVars, teamVars, matchVars, priceVars, confVars, predVars, remVars, dailyVars, loopVars, dlVars, rivVars, timesVars, mgrVars, watchVars, sumVars, pubVars, pageVars, armVars>>

\* fn() resolves.
CallbackResolves == Settle(FALSE)

\* fn() throws, or its promise rejects.
CallbackThrows == Settle(TRUE)

\* While the job waits exactly one of its timers is armed, and none is
\* while fn runs.
OneTimerArmed ==
  /\ jpc = "armed" => pending = 1
  /\ jpc = "running" => pending = 0

\* Every settling of a callback arms exactly one timer, and logs when fn threw.
SettleArmsOne ==
  jpc = "running" /\ jpc' # "running" =>
    /\ jpc' = "armed"
    /\ pending' = pending + 1
    /\ (lastSettle' = "threw" => jobErrors' = Counted(jobErrors))

\* C19: for scheduleWeeklyInTz, scheduleDailyInTz and scheduleAtLocalTimes,
\* after every firing whose callback settles, by resolving or by throwing,
\* exactly one new timer is armed for a freshly computed next occurrence; a
\* throwing callback is caught and logged and never stops the job, so under
\* fairness the job fires again after every firing, infinitely often.
C19_RearmsForever ==
  /\ []OneTimerArmed
  /\ [][SettleArmsOne]_vars
  /\ [](jpc # "stopped")
  /\ (jpc = "running" ~> jpc = "armed")
  /\ []<>(jpc = "running")

\* C19 witness: the job has fired again after a firing whose callback threw.
C19_Witness ==
  /\ jpc = "running"
  /\ lastSettle = "threw"
  /\ jobErrors >= 1
  /\ firings >= 2

(***************************************************************************)
(*                             msUntilNextDaily                            *)
(*  src/index.js 878-889.  Instants are milliseconds from an epoch that    *)
(*  is a UTC midnight; a Date is its instant.  The target zone is eight    *)
(*  hours behind UTC in winter and seven in summer, and changes its offset *)
(*  at 02:00 local time of the third day, forward ("spring"), back         *)
(*  ("fall") or not at all.  The process runs in UTC or in the target zone.*)
(***************************************************************************)

SECOND == 1000

MINUTE == 60 * SECOND

HOUR_MS == 60 * MINUTE

DAY_MS == 24 * HOUR_MS

STANDARD_OFFSET == 0 - (8 * HOUR_MS)

DAYLIGHT_OFFSET == 0 - (7 * HOUR_MS)

\* The days in which the calls are made, counted from the epoch.
MaxDays == 3

\* The target zone: its offset before and after the change, and the instant
\* of the change (02:00 local time on the third day).
OffsetBefore == IF transition = "fall" THEN DAYLIGHT_OFFSET ELSE STANDARD_OFFSET

OffsetAfter == IF transition = "spring" THEN DAYLIGHT_OFFSET ELSE STANDARD_OFFSET

TransitionAt == 2 * DAY_MS + 2 * HOUR_MS - OffsetBefore

\* The UTC offset of a zone at an instant.
ZoneOffset(zone, t) ==
  IF zone = "UTC" THEN 0
  ELSE IF t < TransitionAt THEN OffsetBefore ELSE OffsetAfter

\* The wall clock of a zone at an instant: the local date and time, as
\* milliseconds from local midnight of the epoch day.
Wall(zone, t) == t + ZoneOffset(zone, t)

\* The instant at which the wall clock of a zone shows w.  A time the
\* clock shows twice is its first occurrence; a time the clock skips is
\* taken with the offset before the change.
FromWall(zone, w) ==
  IF zone = "UTC" THEN w
  ELSE IF w - OffsetBefore < TransitionAt THEN w - OffsetBefore
  ELSE IF w - OffsetAfter >= TransitionAt THEN w - OffsetAfter
  ELSE w - OffsetBefore

\* now.toLocaleString("en-US", { timeZone: tz }): the wall clock of the
\* target zone, to the second.
toLocaleString(t) == Wall("tz", t) - (Wall("tz", t) % SECOND)

\* new Date(string): the string read as a wall clock of the process's zone.
ParseDate(w) == FromWall(serverZone, w)

\* d.setHours(hour, minute, 0, 0), in the process's zone.
setHours(d, hour, minute) ==
  LET w == Wall(serverZone, d)
  IN  FromWall(serverZone, w - (w % DAY_MS) + hour * HOUR_MS + minute * MINUTE)

\* d.setDate(d.getDate() + 1), in the process's zone.
NextDate(d) == FromWall(serverZone, Wall(serverZone, d) + DAY_MS)

\* if (target <= tzNow)
Rollover(target, tzNow) == target <= tzNow

msUntilNextDaily(now, hour, minute) ==
  LET tzNow      == ParseDate(toLocaleString(now))
      offset     == tzNow - now
      atTime     == setHours(tzNow, hour, minute)
      target     == IF Rollover(atTime, tzNow) THEN NextDate(atTime) ELSE atTime
      realTarget == target - offset
  IN  IF realTarget - now > 0 THEN realTarget - now ELSE 0

\* The instants of the calls: every quarter of an hour of the days
\* modelled, and just before, at and just after five past.
CallInstants ==
  { DAY_MS + q * (15 * MINUTE) + e :
      q \in 0..(MaxDays * 96 - 1),
      e \in {0, 5 * MINUTE - SECOND \div 2, 5 * MINUTE, 5 * MINUTE + SECOND \div 2} }

\* The arguments hour and minute.
DailyTimes == {<<18, 5>>, <<9, 0>>, <<0, 0>>}

InitDaily ==
  /\ dpc = "input"
  /\ serverZone \in {"UTC", "tz"}
  /\ transition \in {"none", "spring", "fall"}
  /\ dNow \in CallInstants
  /\ \E hm \in DailyTimes : dHour = hm[1] /\ dMinute = hm[2]
  /\ dMs = 0

IdleDaily ==
  /\ dpc = "input"
  /\ serverZone = "UTC"
  /\ transition = "none"
  /\ dNow = DAY_MS
  /\ dHour = 0
  /\ dMinute = 0
  /\ dMs = 0

\* One call msUntilNextDaily(hour, minute, tz).
CallMsUntilNextDaily ==
  /\ dpc = "input"
  /\ dMs' = msUntilNextDaily(dNow, dHour, dMinute)
  /\ dpc' = "done"
  /\ UNCHANGED <<serverZone, transition, dNow, dHour, dMinute>>
  /\ UNCHANGED <<retryVars, renderVars, sectionVars, teamVars, matchVars, priceVars, confVars, predVars, remVars, jobVars, loopVars, dlVars, rivVars, timesVars, mgrVars, watchVars, sumVars, pubVars, pageVars, armVars>>

\* The time of day of the target zone's wall clock at the call, and the
\* argument time of day.
TimeOfDay == Wall("tz", dNow) % DAY_MS

TargetTimeOfDay == dHour * HOUR_MS + dMinute * MINUTE

LocalMidnight == Wall("tz", dNow) - TimeOfDay

\* The instant at which the target zone's clock shows hour:minute on the
\* local day of the call, on the next local day and on the one before.
SameDayOccurrence == FromWall("tz", LocalMidnight + TargetTimeOfDay)

NextDayOccurrence == FromWall("tz", LocalMidnight + DAY_MS + TargetTimeOfDay)

PreviousDayOccurrence == FromWall("tz", LocalMidnight - DAY_MS + TargetTimeOfDay)

\* The occurrence the call is to wait for, and the one before it.
DueOccurrence == IF TimeOfDay < TargetTimeOfDay THEN SameDayOccurrence ELSE NextDayOccurrence

EarlierOccurrence == IF TimeOfDay < TargetTimeOfDay THEN PreviousDayOccurrence ELSE SameDayOccurrence

\* The target zone changes its offset between the call and the occurrence
\* the call is to wait for.
OffsetChangesBeforeDue ==
  ZoneOffset("tz", dNow) # ZoneOffset("tz", DueOccurrence)

\* C20: msUntilNextDaily(h, m, tz) evaluated at a target-zone wall-clock
\* time strictly before h:m yields the delay to h:m of the same local day,
\* and evaluated at or after h:m the delay to h:m of the next local day;
\* the delay is never negative and never exceeds one local day.  The delay
\* is compared to the second, the resolution at which the code reads the
\* wall clock.
C20_DelayToNextOccurrence ==
  dpc = "done" =>
    /\ dMs - (DueOccurrence - dNow) \in 0..(SECOND - 1)
    /\ dMs >= 0
    /\ dMs - (dNow % SECOND) <= DueOccurrence - EarlierOccurrence

\* With no change of offset between the call and the occurrence, and the
\* process in UTC, the delay is the one to the occurrence, rounded up to a
\* whole second, and it is positive and at most 24 hours.
DelayWhenOffsetConstant ==
  dpc = "done" /\ serverZone = "UTC" /\ ~OffsetChangesBeforeDue =>
    /\ dMs - (DueOccurrence - dNow) = dNow % SECOND
    /\ dMs > 0
    /\ dMs <= DAY_MS

(***************************************************************************)
(*                            scheduleDailyInTz                            *)
(*  src/index.js 891-906 with the clock: each timer is armed with the      *)
(*  delay msUntilNextDaily returns at that moment and fires when it has    *)
(*  elapsed; the callback takes some time and the next delay is computed   *)
(*  when it has settled.                                                   *)
(***************************************************************************)

MaxLoopFirings == 3

\* How long a callback runs.
CallbackDurations == {0, MINUTE}

\* A callback that is still running when the next configured time passes.
OverrunDurations == CallbackDurations \cup {25 * HOUR_MS}

\* The job starts at one of the six-hour marks of the days modelled.
InitLoopWith(durations) ==
  /\ lpc = "idle"
  /\ lClock = dNow
  /\ lClock % (6 * HOUR_MS) = 0
  /\ lFireAt = 0
  /\ lFirings = <<>>
  /\ lSettles = <<>>
  /\ lPending = 0
  /\ lRunning = 0
  /\ lDurations = durations

InitLoop == InitLoopWith(CallbackDurations)

InitOverrun == InitLoopWith(OverrunDurations)

IdleLoop ==
  /\ lpc = "idle"
  /\ lClock = DAY_MS
  /\ lFireAt = 0
  /\ lFirings = <<>>
  /\ lSettles = <<>>
  /\ lPending = 0
  /\ lRunning = 0
  /\ lDurations = CallbackDurations

FireAtMutant(now, ms) == now

\* setTimeout(callback, ms): the instant at which the timer is due.
FireAt(now, ms) == now + ms

\* scheduleDailyInTz is called: scheduleNext() computes the delay and arms
\* the first timer.
StartDaily ==
  /\ lpc = "idle"
  /\ dNow' = lClock
  /\ dMs' = msUntilNextDaily(lClock, dHour, dMinute)
  /\ lFireAt' = FireAt(lClock, dMs')
  /\ lPending' = lPending + 1
  /\ lpc' = "armed"
  /\ UNCHANGED <<lClock, lFirings, lSettles, lRunning, lDurations>>
  /\ UNCHANGED <<dpc, serverZone, transition, dHour, dMinute>>
  /\ UNCHANGED <<retryVars, renderVars, sectionVars, teamVars, matchVars, priceVars, confVars, predVars, remVars, jobVars, dlVars, rivVars, timesVars, mgrVars, watchVars, sumVars, pubVars, pageVars, armVars>>

\* The delay elapses and the callback starts.
DailyTimerFires ==
  /\ lpc = "armed"
  /\ Len(lFirings) < MaxLoopFirings
  /\ lPending > 0
  /\ lClock' = lFireAt
  /\ lFirings' = Append(lFirings, lFireAt)
  /\ lPending' = lPending - 1
  /\ lRunning' = lRunning + 1
  /\ lpc' = "running"
  /\ UNCHANGED <<lFireAt, lSettles, lDurations, dailyVars>>
  /\ UNCHANGED <<retryVars, renderVars, sectionVars, teamVars, matchVars, priceVars, confVars, predVars, remVars, jobVars, dlVars, rivVars, timesVars, mgrVars, watchVars, sumVars, pubVars, pageVars, armVars>>

\* fn() settles and the finally block calls scheduleNext().
DailySettles ==
  /\ lpc = "running"
  /\ \E d \in lDurations : lClock' = lClock + d
  /\ lSettles' = Append(lSettles, lClock')
  /\ lRunning' = lRunning - 1
  /\ dNow' = lClock'
  /\ dMs' = msUntilNextDaily(lClock', dHour, dMinute)
  /\ lFireAt' = FireAt(lClock', dMs')
  /\ lPending' = lPending + 1
  /\ lpc' = "armed"
  /\ UNCHANGED <<lFirings, lDurations>>
  /\ UNCHANGED <<dpc, serverZone, transition, dHour, dMinute>>
  /\ UNCHANGED <<retryVars, renderVars, sectionVars, teamVars, matchVars, priceVars, confVars, predVars, remVars, jobVars, dlVars, rivVars, timesVars, mgrVars, watchVars, sumVars, pubVars, pageVars, armVars>>

\* The local calendar day and the time of day of the target zone's wall
\* clock at an instant.
LocalDay(t) == Wall("tz", t) \div DAY_MS

LocalTime(t) == Wall("tz", t) % DAY_MS

\* Every firing is at the configured wall-clock time, to the second.
FiresAtConfiguredTime ==
  \A i \in 1..Len(lFirings) :
    LocalTime(lFirings[i]) - TargetTimeOfDay \in 0..(SECOND - 1)

\* No two firings fall on one local calendar day, and no day between two
\* firings is left out.
OncePerLocalDay ==
  \A i \in 1..(Len(lFirings) - 1) :
    LocalDay(lFirings[i + 1]) = LocalDay(lFirings[i]) + 1

\* C21: the daily scheduler is DST-safe: also when the target zone's UTC
\* offset changes between the moment the next occurrence is computed and
\* that occurrence, the callback fires at the configured local wall-clock
\* time and exactly once on each local calendar day.
C21_DstSafe == FiresAtConfiguredTime /\ OncePerLocalDay

(***************************************************************************)
(*                      scheduleDeadlineReminders                          *)
(*  src/index.js 2155-2282 with clearReminders (1515-1518) and the call    *)
(*  at ClientReady (2886).  A run is followed from await to await; where   *)
(*  the clock stands against the deadline is chosen at each scheduleAt.    *)
(***************************************************************************)

MaxRuns == 3

\* A timer: what it runs, the run that created it, its state ("pending",
\* "running" while its callback awaits, "done", "cleared") and the number
\* of times its callback was started.
Timer(kind, run) == [kind |-> kind, run |-> run, state |-> "pending", started |-> 0]

ClearedMutant(ts, list) == ts

\* clearReminders(): clearTimeout cancels the timers of the list that have
\* not fired and leaves the others as they are.
Cleared(ts, list) ==
  [i \in 1..Len(ts) |->
     IF ts[i].state = "pending" /\ \E k \in 1..Len(list) : list[k] = i
     THEN [ts[i] EXCEPT !.state = "cleared"]
     ELSE ts[i]]

\* scheduleAt(when, label, fn) on the pair <<timers, list>>: arms a timer
\* when ms > 0 and pushes it.
WithReminder(pair, kind, run, armed) ==
  IF armed
  THEN <<Append(pair[1], Timer(kind, run)), Append(pair[2], Len(pair[1]) + 1)>>
  ELSE pair

\* __scheduledTimeouts.push(setTimeout(scheduleDeadlineReminders, reschedMs))
WithRearm(pair, run) ==
  <<Append(pair[1], Timer("rearm", run)), Append(pair[2], Len(pair[1]) + 1)>>

InitDeadline ==
  /\ dlPc = "idle"
  /\ dlStarted = "none"
  /\ dlRuns = 0
  /\ dlEnd = "none"
  /\ dlTimers = <<>>
  /\ dlTimeouts = <<>>
  /\ dlEscaped = 0

IdleDeadline == InitDeadline

\* ClientReady: try { await scheduleDeadlineReminders(); } catch (e) { log }
\* The run goes up to the await of client.channels.fetch.
Boot ==
  /\ dlPc = "idle"
  /\ dlStarted = "none"
  /\ dlPc' = "channel"
  /\ dlStarted' = "boot"
  /\ dlRuns' = dlRuns + 1
  /\ UNCHANGED <<dlEnd, dlTimers, dlTimeouts, dlEscaped>>
  /\ UNCHANGED <<retryVars, renderVars, sectionVars, teamVars, matchVars, priceVars, confVars, predVars, remVars, jobVars, dailyVars, loopVars, rivVars, timesVars, mgrVars, watchVars, sumVars, pubVars, pageVars, armVars>>

\* The re-arm timer fires: setTimeout calls scheduleDeadlineReminders.
RearmFires ==
  /\ dlPc = "idle"
  /\ dlRuns < MaxRuns
  /\ \E i \in 1..Len(dlTimers) :
       /\ dlTimers[i].kind = "rearm"
       /\ dlTimers[i].state = "pending"
       /\ dlTimers' = [dlTimers EXCEPT ![i] = [@ EXCEPT !.state = "done", !.started = @ + 1]]
  /\ dlPc' = "channel"
  /\ dlStarted' = "timer"
  /\ dlRuns' = dlRuns + 1
  /\ UNCHANGED <<dlEnd, dlTimeouts, dlEscaped>>
  /\ UNCHANGED <<retryVars, renderVars, sectionVars, teamVars, matchVars, priceVars, confVars, predVars, remVars, jobVars, dailyVars, loopVars, rivVars, timesVars, mgrVars, watchVars, sumVars, pubVars, pageVars, armVars>>

\* client.channels.fetch settles: a rejection is caught and the run returns.
ChannelFetched ==
  /\ dlPc = "channel"
  /\ \E ok \in BOOLEAN :
       IF ok
       THEN /\ dlPc' = "event"
            /\ UNCHANGED dlEnd
       ELSE /\ dlPc' = "idle"
            /\ dlEnd' = "noChannel"
  /\ UNCHANGED <<dlStarted, dlRuns, dlTimers, dlTimeouts, dlEscaped>>
  /\ UNCHANGED <<retryVars, renderVars, sectionVars, teamVars, matchVars, priceVars, confVars, predVars, remVars, jobVars, dailyVars, loopVars, rivVars, timesVars, mgrVars, watchVars, sumVars, pubVars, pageVars, armVars>>

\* An exception leaves scheduleDeadlineReminders: the caller at ClientReady
\* catches it, a timer does not.
Escapes == IF dlStarted = "timer" THEN dlEscaped + 1 ELSE dlEscaped

\* getNextFplEvent settles.  With an event the run goes on without an
\* await: clearReminders(), scheduleAt for T-24h, and then either the
\* await of the catch-up previews (inside the 24-hour window, or entering
\* it between scheduleAt and the test: "crossing") or scheduleAt for T-1h
\* and the re-arm.
EventFetched ==
  /\ dlPc = "event"
  /\ \E result \in {"throws", "none", "early", "crossing", "window", "late"} :
       CASE result = "throws" ->
              /\ dlPc' = "idle"
              /\ dlEnd' = "threw"
              /\ dlEscaped' = Escapes
              /\ UNCHANGED <<dlTimers, dlTimeouts>>
         [] result = "none" ->
              /\ dlPc' = "idle"
              /\ dlEnd' = "noEvent"
              /\ UNCHANGED <<dlTimers, dlTimeouts, dlEscaped>>
         [] result \in {"crossing", "window"} ->
              LET start == <<Cleared(dlTimers, dlTimeouts), <<>>>>
                  day   == WithReminder(start, "24h", dlRuns, result = "crossing")
              IN  /\ dlTimers' = day[1]
                  /\ dlTimeouts' = day[2]
                  /\ dlPc' = "catchUp"
                  /\ UNCHANGED <<dlEnd, dlEscaped>>
         [] OTHER ->
              LET start == <<Cleared(dlTimers, dlTimeouts), <<>>>>
                  day   == WithReminder(start, "24h", dlRuns, result = "early")
                  hour  == WithReminder(day, "1h", dlRuns, result = "early")
                  all   == WithRearm(hour, dlRuns)
              IN  /\ dlTimers' = all[1]
                  /\ dlTimeouts' = all[2]
                  /\ dlPc' = "idle"
                  /\ dlEnd' = "scheduled"
                  /\ UNCHANGED dlEscaped
  /\ UNCHANGED <<dlStarted, dlRuns>>
  /\ UNCHANGED <<retryVars, renderVars, sectionVars, teamVars, matchVars, priceVars, confVars, predVars, remVars, jobVars, dailyVars, loopVars, rivVars, timesVars, mgrVars, watchVars, sumVars, pubVars, pageVars, armVars>>

\* runPreviews("catch-up") settles: it rejects when channel.send does.
\* Otherwise scheduleAt for T-1h (armed unless that instant has passed
\* meanwhile) and the re-arm.
CatchUpDone ==
  /\ dlPc = "catchUp"
  /\ \E result \in {"throws", "window", "late"} :
       IF result = "throws"
       THEN /\ dlEnd' = "threw"
            /\ dlEscaped' = Escapes
            /\ UNCHANGED <<dlTimers, dlTimeouts>>
       ELSE LET hour == WithReminder(<<dlTimers, dlTimeouts>>, "1h", dlRuns, result = "window")
                all  == WithRearm(hour, dlRuns)
            IN  /\ dlTimers' = all[1]
                /\ dlTimeouts' = all[2]
                /\ dlEnd' = "scheduled"
                /\ UNCHANGED dlEscaped
  /\ dlPc' = "idle"
  /\ UNCHANGED <<dlStarted, dlRuns>>
  /\ UNCHANGED <<retryVars, renderVars, sectionVars, teamVars, matchVars, priceVars, confVars, predVars, remVars, jobVars, dailyVars, loopVars, rivVars, timesVars, mgrVars, watchVars, sumVars, pubVars, pageVars, armVars>>

\* A reminder timer fires: its callback starts and awaits channel.send.
ReminderFires ==
  /\ \E i \in 1..Len(dlTimers) :
       /\ dlTimers[i].kind # "rearm"
       /\ dlTimers[i].state = "pending"
       /\ dlTimers' = [dlTimers EXCEPT ![i] = [@ EXCEPT !.state = "running", !.started = @ + 1]]
  /\ UNCHANGED <<dlPc, dlStarted, dlRuns, dlEnd, dlTimeouts, dlEscaped>>
  /\ UNCHANGED <<retryVars, renderVars, sectionVars, teamVars, matchVars, priceVars, confVars, predVars, remVars, jobVars, dailyVars, loopVars, rivVars, timesVars, mgrVars, watchVars, sumVars, pubVars, pageVars, armVars>>

\* A reminder callback settles: whatever channel.send or fn threw is
\* caught inside it.
ReminderDone ==
  /\ \E i \in 1..Len(dlTimers) :
       /\ dlTimers[i].state = "running"
       /\ dlTimers' = [dlTimers EXCEPT ![i] = [@ EXCEPT !.state = "done"]]
  /\ UNCHANGED <<dlPc, dlStarted, dlRuns, dlEnd, dlTimeouts, dlEscaped>>
  /\ UNCHANGED <<retryVars, renderVars, sectionVars, teamVars, matchVars, priceVars, confVars, predVars, remVars, jobVars, dailyVars, loopVars, rivVars, timesVars, mgrVars, watchVars, sumVars, pubVars, pageVars, armVars>>

\* A timer that will call scheduleDeadlineReminders is pending.
RearmPending ==
  \E i \in 1..Len(dlTimers) : dlTimers[i].kind = "rearm" /\ dlTimers[i].state = "pending"

\* C22: the deadline-reminder job never lets an exception escape a timer
\* callback and always re-arms itself: every run of
\* scheduleDeadlineReminders started by its re-arm timer ends with a
\* pending timer that will run scheduleDeadlineReminders again.
C22_AlwaysRearms ==
  /\ dlEscaped = 0
  /\ dlPc = "idle" /\ dlStarted = "timer" => RearmPending

(***************************************************************************)
(*                  The extent of a heading section                        *)
(***************************************************************************)

\* The headings at which a section that starts at a heading of the given
\* tag ends: the next <h2> for an <h2>, the next <h2> or <h3> for an <h3>.
EndTags(tag) == IF tag = "h2" THEN {"h2"} ELSE {"h2", "h3"}

\* The heading at a path, and from it the following siblings up to, not
\* including, the first one whose tag ends the section.
Extent(pg, path) ==
  LET sibs == Siblings(pg, path)
      s    == path[Len(path)]
      ends == {k \in (s + 1)..Len(sibs) : sibs[k].tag \in EndTags(sibs[s].tag)}
  IN  [k \in 1..(IF ends = {} THEN Len(sibs) - s + 1
                 ELSE (CHOOSE e \in ends : \A m \in ends : e <= m) - s) |-> sibs[s + k - 1]]

\* C23: in the heading-split strategy a section that starts at an <h2>
\* extends over the following sibling nodes up to, not including, the next
\* <h2> (an <h3> in between stays inside it), a section that starts at an
\* <h3> extends up to, not including, the next <h2> or <h3>, and the
\* starting heading itself is part of the section: the text of the section
\* is the text of that run of nodes.
C23_HeadingSectionExtent ==
  spc = "done" =>
    \A i \in 1..Len(sections) :
      sections[i].strategy = "heading" =>
        /\ Extent(page, sections[i].at)[1] = Siblings(page, sections[i].at)[sections[i].at[Len(sections[i].at)]]
        /\ sections[i].textLen = htmlToText(Extent(page, sections[i].at))

\* C23's case: the page is <h2>, <h3>, <p>; the section of the <h2> holds
\* all three nodes and the section of the <h3> the last two.
C23_Witness ==
  /\ spc = "done"
  /\ Len(page) = 3
  /\ page[1].tag = "h2" /\ page[2].tag = "h3" /\ page[3].tag = "p"
  /\ Len(sections) = 2
  /\ sections[1].strategy = "heading" /\ sections[1].at = <<1>>
  /\ sections[1].textLen = page[1].len + page[2].len + page[3].len
  /\ sections[2].strategy = "heading" /\ sections[2].at = <<2>>
  /\ sections[2].textLen = page[2].len + page[3].len

(***************************************************************************)
(*                      The zone bonus of the drama score                  *)
(***************************************************************************)

\* The array scored of the call: the fixtures that join, with their scores.
Scored == ScoredFrom(standings, fixtures.list, 1, league, rivalries)

\* What the score of a scored pairing holds beyond the H2H closeness, the
\* season totals and the rivalry bonus, in thousandths.
ZoneBonus(s) ==
  s.score - 1000 * (100 - Min(100, Abs(s.a.h2hPoints - s.b.h2hPoints)))
          - (s.a.totalScore + s.b.totalScore)
          - (IF s.riv THEN 100000 ELSE 0)

\* The pairing has both teams among the last k positions of the table.
BothInLast(s, k) ==
  /\ s.a.position > Len(standings) - k
  /\ s.b.position > Len(standings) - k

BothInTopSix(s) == s.a.position <= 6 /\ s.b.position <= 6

\* C24 as claimed: a pair receives the +20 relegation-zone bonus exactly
\* when both teams are among the bottom 4 positions of the N-team table
\* (positions N-3..N), and the +25 bonus exactly when both positions are at
\* most 6; a pair with a team at position N-4 gets no relegation bonus.
C24_BottomFourBonus ==
  mpc = "done" /\ Len(standings) >= 6 /\ HasFixtures(fixtures) =>
    \A k \in 1..Len(Scored) :
      ZoneBonus(Scored[k]) = (IF BothInTopSix(Scored[k]) THEN 25000 ELSE 0)
                             + (IF BothInLast(Scored[k], 4) THEN 20000 ELSE 0)

\* C24 as amended: the +20 bonus goes to a pair exactly when both teams are
\* among the bottom 5 positions (N-4..N), the +25 bonus exactly when both
\* positions are at most 6, and the picks come in descending order of the
\* score with these bonuses.
C24_BottomFiveBonus ==
  mpc = "done" /\ Len(standings) >= 6 /\ HasFixtures(fixtures) =>
    /\ \A k \in 1..Len(Scored) :
         ZoneBonus(Scored[k]) = (IF BothInTopSix(Scored[k]) THEN 25000 ELSE 0)
                                + (IF BothInLast(Scored[k], 5) THEN 20000 ELSE 0)
    /\ \A p \in 1..(Len(picks) - 1) : PickScore(picks[p]) >= PickScore(picks[p + 1])

\* C24's case: in a table of 6 the fixture of the teams at positions 3 and
\* 2 (2 = N-4) took both bonuses and so came out first, before the fixture
\* of the teams at positions 1 and 2 that was listed first.
C24_Witness ==
  /\ mpc = "done"
  /\ Len(standings) = 6
  /\ HasFixtures(fixtures)
  /\ Len(Scored) = 2
  /\ Scored[1].a.position = 1 /\ Scored[1].b.position = 2
  /\ Scored[2].a.position = 3 /\ Scored[2].b.position = 2
  /\ ~Scored[1].riv /\ ~Scored[2].riv
  /\ ZoneBonus(Scored[1]) = 25000
  /\ ZoneBonus(Scored[2]) = 45000
  /\ Len(picks) = 2
  /\ picks[1].pair[1].position = 3

(***************************************************************************)
(*                             rivalryMatches                              *)
(*  src/index.js 1207-1225, called for a pair of standings in both orders. *)
(***************************************************************************)

\* RIVALRIES has at most MaxRivalries rows.
MaxRivalries == 2

\* The rows RIVALRIES is made of: two owners; two teams, named the other
\* way round and without label and reason; rows scoped to a league; a row
\* that names one side only.
RivalryRows ==
  { [a_owner |-> "Ann", b_owner |-> "bob", label |-> "Derby", reason |-> "Old foes"],
    [a_team |-> "Beta FC", b_team |-> " ALPHA "],
    [league |-> "cup", a_team |-> "Gamma", b_owner |-> "ann", reason |-> "Cup grudge"],
    [league |-> "Main", a_owner |-> "Bob", b_team |-> "Gamma", label |-> "Main event"],
    [a_owner |-> "ann"] }

RivalryFiles == UNION {[1..n -> RivalryRows] : n \in 0..MaxRivalries}

\* The standings a and b are taken from.
RivalryTeams == {Table(6, prof)[i] : prof \in Profiles, i \in 1..3}

\* The argument league: undefined, or the name of a league.
LeagueArguments == {""} \cup Leagues

NoRivalry == [null |-> TRUE, label |-> "", reason |-> ""]

\* { label: r.label || "Rivalry match!", reason: r.reason || "Historic grudge match." }
RivalryOf(r) ==
  [null |-> FALSE,
   label |-> IF Field(r, "label") # "" THEN r.label ELSE "Rivalry match!",
   reason |-> IF Field(r, "reason") # "" THEN r.reason ELSE "Historic grudge match."]

\* What rivalryMatches(league, a, b) returns: the record of the first row
\* of RIVALRIES that matches, or null.
rivalryRecord(rivs, lg, a, b) ==
  LET hits == {k \in 1..Len(rivs) : RivalryRowMatches(rivs[k], lg, a, b)}
  IN  IF hits = {} THEN NoRivalry
      ELSE RivalryOf(rivs[CHOOSE k \in hits : \A m \in hits : k <= m])

InitRivalry ==
  /\ vpc = "input"
  /\ rivRows \in RivalryFiles
  /\ rivLeague \in LeagueArguments
  /\ rivA \in RivalryTeams
  /\ rivB \in RivalryTeams
  /\ rivAB = NoRivalry
  /\ rivBA = NoRivalry

IdleRivalry ==
  /\ vpc = "input"
  /\ rivRows = <<>>
  /\ rivLeague = ""
  /\ rivA = Table(6, CHOOSE prof \in Profiles : TRUE)[1]
  /\ rivB = rivA
  /\ rivAB = NoRivalry
  /\ rivBA = NoRivalry

\* rivalryMatches(league, a, b) and rivalryMatches(league, b, a).
CallRivalryMatches ==
  /\ vpc = "input"
  /\ rivAB' = rivalryRecord(rivRows, rivLeague, rivA, rivB)
  /\ rivBA' = rivalryRecord(rivRows, rivLeague, rivB, rivA)
  /\ vpc' = "done"
  /\ UNCHANGED <<rivRows, rivLeague, rivA, rivB>>
  /\ UNCHANGED <<retryVars, renderVars, sectionVars, teamVars, matchVars, priceVars, confVars, predVars, remVars, jobVars, dailyVars, loopVars, dlVars, timesVars, mgrVars, watchVars, sumVars, pubVars, pageVars, armVars>>

\* The row names a league, and it is not the league of the call.
OtherLeague(r, lg) ==
  Field(r, "league") # "" /\ normalizeStr(Field(r, "league")) # normalizeStr(lg)

\* C25: rivalryMatches is symmetric in its two teams and respects league
\* scope: rivalryMatches(league, a, b) and rivalryMatches(league, b, a)
\* return the same record or both null; a rivalry record that names a league
\* never matches under another league (the result is that of RIVALRIES
\* without the rows of other leagues, and null when every row is of another
\* league), and a record without a league matches under any league (with no
\* row naming a league the result is the same under every league).
C25_SymmetricAndScoped ==
  vpc = "done" =>
    /\ rivAB = rivBA
    /\ rivAB = rivalryRecord(SelectSeq(rivRows, LAMBDA r : ~OtherLeague(r, rivLeague)),
                             rivLeague, rivA, rivB)
    /\ (\A k \in 1..Len(rivRows) : OtherLeague(rivRows[k], rivLeague)) => rivAB.null
    /\ (\A k \in 1..Len(rivRows) : Field(rivRows[k], "league") = "") =>
         \A lg \in LeagueArguments : rivalryRecord(rivRows, lg, rivA, rivB) = rivAB

\* C25 witness: Alpha and Beta FC (ann and bob) under the league Main, with
\* a cup row first and the team row second; the team row names Beta FC as
\* its side a, and both orders of the call returned its default record.
C25_Witness ==
  /\ vpc = "done"
  /\ rivLeague = "Main"
  /\ rivA.team = "Alpha" /\ rivB.team = "Beta FC"
  /\ Len(rivRows) = 2
  /\ Field(rivRows[1], "league") = "cup"
  /\ Field(rivRows[2], "a_team") = "Beta FC"
  /\ ~rivAB.null
  /\ rivAB.label = "Rivalry match!"
  /\ rivBA = rivAB

(***************************************************************************)
(*                      The picks made without fixtures                    *)
(***************************************************************************)

\* The two teams of a pick.
TeamPair(p) == {p.pair[1].team, p.pair[2].team}

\* The pairs of neighbours of the table, as sets of team names.
NeighbourPairs == {{standings[i].team, standings[i + 1].team} : i \in 1..(Len(standings) - 1)}

\* The H2H-points gap of the neighbours i and i + 1.
Gap(i) == Abs(standings[i].h2hPoints - standings[i + 1].h2hPoints)

\* The pick is the pair of the neighbours i and i + 1.
IsNeighbours(p, i) == p.pair = <<standings[i], standings[i + 1]>>

\* The neighbours i and i + 1 are not among the first k picks.
Unused(i, k) == \A q \in 1..k : ~IsNeighbours(picks[q], i)

MaxTimes == 3

LocalTimes == {<<8, 0>>, <<12, 30>>, <<18, 0>>}

TimeLists == UNION {[1..n -> LocalTimes] : n \in 1..MaxTimes}

\* The instants of the calls: the half hours of one day.
HalfHours == {DAY_MS + q * (30 * MINUTE) : q \in 0..47}

RECURSIVE InsertInstant(_, _)
InsertInstant(t, sorted) ==
  IF sorted = <<>> THEN <<t>>
  ELSE IF t < Head(sorted) THEN <<t>> \o sorted
       ELSE <<Head(sorted)>> \o InsertInstant(t, Tail(sorted))

RECURSIVE SortInstants(_)
\* cands.sort((a, b) => a - b)
SortInstants(list) ==
  IF list = <<>> THEN <<>> ELSE InsertInstant(Head(list), SortInstants(Tail(list)))

\* const [h0, m0] = parseHM(times[0])
TomorrowTime(times) == times[1]

msUntilNext(now, times) ==
  LET tzNow   == ParseDate(toLocaleString(now))
      offset  == tzNow - now
      today   == [i \in 1..Len(times) |-> setHours(tzNow, times[i][1], times[i][2])]
      left    == SelectSeq(today, LAMBDA targetLocal : targetLocal > tzNow)
      first   == TomorrowTime(times)
      cands   == IF left # <<>>
                 THEN [i \in 1..Len(left) |-> left[i] - offset]
                 ELSE <<setHours(NextDate(tzNow), first[1], first[2]) - offset>>
      next    == SortInstants(cands)[1]
  IN  IF next - now > 0 THEN next - now ELSE 0

InitTimes ==
  /\ xpc = "input"
  /\ xTimes \in TimeLists
  /\ xNow \in HalfHours
  /\ xMs = 0

IdleTimes ==
  /\ xpc = "input"
  /\ xTimes = <<>>
  /\ xNow = DAY_MS
  /\ xMs = 0

\* One call msUntilNext().
CallMsUntilNext ==
  /\ xpc = "input"
  /\ xMs' = msUntilNext(xNow, xTimes)
  /\ xpc' = "done"
  /\ UNCHANGED <<xTimes, xNow>>
  /\ UNCHANGED <<retryVars, renderVars, sectionVars, teamVars, matchVars, priceVars, confVars, predVars, remVars, jobVars, dailyVars, loopVars, dlVars, rivVars, mgrVars, watchVars, sumVars, pubVars, pageVars, armVars>>

\* The configured times as times of day, and the time of day of the call
\* on the target zone's wall clock.
ConfiguredTimes == {xTimes[i][1] * HOUR_MS + xTimes[i][2] * MINUTE : i \in 1..Len(xTimes)}

CallTimeOfDay == Wall("tz", xNow) % DAY_MS

Earliest(S) == CHOOSE t \in S : \A u \in S : t <= u

\* The time of day the next firing is to have, and whether it is tomorrow.
LeftToday == {t \in ConfiguredTimes : t > CallTimeOfDay}

\* The wall clock of the firing the call arms.
FiringWall == Wall("tz", xNow + xMs)

\* C27: scheduleAtLocalTimes picks, among all configured local times, the
\* earliest one that is still in the future today, and when none is left
\* today the earliest configured time of tomorrow, for every order in which
\* the times are listed.
C27_EarliestNextTime ==
  xpc = "done" =>
    FiringWall = (Wall("tz", xNow) - CallTimeOfDay)
                 + (IF LeftToday # {} THEN Earliest(LeftToday)
                    ELSE DAY_MS + Earliest(ConfiguredTimes))

(***************************************************************************)
(*                    clearReminders cancels as a group                    *)
(***************************************************************************)

\* The latest run has gone through clearReminders(): it is at the await of
\* the catch-up previews, or it ran to its end.
PastClearReminders == dlPc = "catchUp" \/ (dlPc = "idle" /\ dlEnd = "scheduled")

\* The callback of a cancelled timer was never started, and no callback is
\* started twice.
CancelledNeverRun ==
  \A i \in 1..Len(dlTimers) :
    /\ dlTimers[i].started <= 1
    /\ dlTimers[i].state = "cleared" => dlTimers[i].started = 0

\* After clearReminders no timer of an earlier run is pending, and the list
\* holds only timers of the run that called it, at most three.
OnlyOwnTimers ==
  PastClearReminders =>
    /\ \A i \in 1..Len(dlTimers) : dlTimers[i].run < dlRuns => dlTimers[i].state # "pending"
    /\ \A k \in 1..Len(dlTimeouts) : dlTimers[dlTimeouts[k]].run = dlRuns
    /\ Len(dlTimeouts) <= 3
    /\ dlPc = "idle" => \E k \in 1..Len(dlTimeouts) : dlTimers[dlTimeouts[k]].kind = "rearm"

\* A callback that is executing goes on and ends, whatever is cancelled.
RunningCompletes ==
  \A i \in 1..Len(dlTimers) :
    dlTimers[i].state = "running" => dlTimers'[i].state \in {"running", "done"}

\* C28: clearReminders cancels the deadline-reminder timers as a group:
\* after it runs, no callback of a timer that was pending in
\* __scheduledTimeouts ever runs and the list is empty, while a reminder
\* callback already executing runs to completion; after each completed
\* scheduleDeadlineReminders run the list holds only timers created by that
\* run (at most three).
C28_CancelledAsGroup ==
  /\ []CancelledNeverRun
  /\ []OnlyOwnTimers
  /\ [][RunningCompletes]_vars

\* C28 witness: the second run has ended; of the timers of the first run
\* one was cancelled before it fired and one, whose callback was executing
\* when clearReminders ran, is still executing; the list holds the three
\* timers of the second run.
C28_Witness ==
  /\ dlPc = "idle"
  /\ dlEnd = "scheduled"
  /\ dlRuns = 2
  /\ Len(dlTimeouts) = 3
  /\ \E i, j \in 1..Len(dlTimers) :
       /\ dlTimers[i].run = 1 /\ dlTimers[i].state = "cleared" /\ dlTimers[i].kind = "24h"
       /\ dlTimers[j].run = 1 /\ dlTimers[j].state = "running" /\ dlTimers[j].kind = "1h"

(***************************************************************************)
(*                        refreshManagerDiscordMap                         *)
(***************************************************************************)

MaxRefreshes == 3

\* The two refreshes that may be in flight together (the one awaited at
\* start-up or an interval tick, and the next interval tick).
Refreshers == {1, 2}

\* n times the character c.
Run(n, c) == [i \in 1..n |-> c]

\* null of JavaScript, and the empty string: both falsy.
NoId == <<>>

SNOWFLAKE_MIN == 17
SNOWFLAKE_MAX == 20

\* extractDiscordId: the first run of 17 to 20 digits of the value, as the
\* greedy /\d{17,20}/ finds it, or null.
extractDiscordId(val) ==
  IF val = NoId THEN NoId
  ELSE LET AllDigits(i, n) == i + n - 1 <= Len(val) /\ \A k \in i..(i + n - 1) : Digit(val[k]) >= 0
           starts == {i \in 1..Len(val) : AllDigits(i, SNOWFLAKE_MIN)}
       IN  IF starts = {} THEN NoId
           ELSE LET i == CHOOSE s \in starts : \A t \in starts : s <= t
                    n == CHOOSE m \in SNOWFLAKE_MIN..SNOWFLAKE_MAX :
                           AllDigits(i, m) /\ \A q \in SNOWFLAKE_MIN..SNOWFLAKE_MAX : AllDigits(i, q) => q <= m
                IN  SubSeq(val, i, i + n - 1)

AnnId == Run(18, "1")
BobId == Run(17, "2")

\* Values of the discord_id column: a mention, a bare id, a number too short
\* to be an id, a number longer than an id, nothing.
RawMention == <<"<", "@">> \o AnnId \o <<">">>
RawShort == Run(16, "3")
RawLong == Run(21, "4")

\* Bodies of the managers endpoint, with the column names the code accepts.
Responses ==
  { <<[owner |-> "ann", team |-> "reds", discord_id |-> RawMention],
      [owner_name |-> "bob", discord |-> RawShort]>>,
    <<[manager |-> "bob", team_name |-> "reds", discordId |-> BobId]>>,
    <<[owner |-> "ann", team |-> "reds", discord_id |-> RawMention],
      [owner |-> "bob", team |-> "reds", discord_id |-> BobId]>>,
    <<[username |-> "cat", discord_user_id |-> RawLong]>>,
    <<>> }

\* Values of MANAGER_DISCORD_MAP at start-up: unset, or a map.
EnvMaps ==
  { <<>>,
    [k \in {"bob", "dan"} |-> IF k = "bob" THEN AnnId ELSE BobId] }

SetKey(map, key, value) ==
  [k \in DOMAIN map \cup {key} |-> IF k = key THEN value ELSE map[k]]

HoldsId(map, key) == key \in DOMAIN map /\ map[key] # NoId

\* pushRow: the owner key is always written, the team key only while the
\* map holds nothing truthy under it.
pushRow(map, row) ==
  LET owner == Truthy(row, <<"owner", "owner_name", "name", "manager", "display_name",
                                "username">>, "", "")
      team  == Truthy(row, <<"team", "team_name">>, "", "")
      rawId == Truthy(row, <<"discord_id", "discordId", "discord", "discord_user_id",
                                "discordUserId">>, NoId, NoId)
      did   == extractDiscordId(rawId)
      owned == IF owner # "" THEN SetKey(map, owner, did) ELSE map
  IN  IF team # "" /\ ~HoldsId(owned, team)
      THEN SetKey(owned, team, did)
      ELSE owned

\* The map refreshManagerDiscordMap builds from a response.
RECURSIVE BuildMap(_, _)
BuildMap(map, data) ==
  IF data = <<>> THEN map
  ELSE BuildMap(pushRow(map, Head(data)), Tail(data))

MergeMutant(old, new) == new

\* { ...MANAGER_MAP, ...map }
Merge(old, new) ==
  [k \in DOMAIN old \cup DOMAIN new |-> IF k \in DOMAIN new THEN new[k] ELSE old[k]]

InitManagers ==
  /\ mgrPc = [p \in Refreshers |-> "idle"]
  /\ envMap \in EnvMaps
  /\ MANAGER_MAP = envMap
  /\ written = <<>>
  /\ mgrStarted = 0
  /\ overlapped = FALSE

IdleManagers ==
  /\ mgrPc = [p \in Refreshers |-> "idle"]
  /\ envMap = <<>>
  /\ MANAGER_MAP = <<>>
  /\ written = <<>>
  /\ mgrStarted = 0
  /\ overlapped = FALSE

\* refreshManagerDiscordMap is called and awaits axios.get.
StartRefresh(p) ==
  /\ mgrPc[p] = "idle"
  /\ mgrStarted < MaxRefreshes
  /\ mgrPc' = [mgrPc EXCEPT ![p] = "awaiting"]
  /\ mgrStarted' = mgrStarted + 1
  /\ UNCHANGED <<MANAGER_MAP, envMap, written, overlapped>>
  /\ UNCHANGED <<retryVars, renderVars, sectionVars, teamVars, matchVars, priceVars, confVars, predVars, remVars, jobVars, dailyVars, loopVars, dlVars, rivVars, timesVars, watchVars, sumVars, pubVars, pageVars, armVars>>

\* The response arrives: the map is built and merged into the cache in one
\* synchronous stretch.
RefreshSucceeds(p) ==
  /\ mgrPc[p] = "awaiting"
  /\ \E data \in Responses :
       LET map == BuildMap(<<>>, data)
       IN  /\ MANAGER_MAP' = Merge(MANAGER_MAP, map)
           /\ written' = Append(written, map)
  /\ overlapped' = (\E q \in Refreshers \ {p} : mgrPc[q] = "awaiting")
  /\ mgrPc' = [mgrPc EXCEPT ![p] = "idle"]
  /\ UNCHANGED <<envMap, mgrStarted>>
  /\ UNCHANGED <<retryVars, renderVars, sectionVars, teamVars, matchVars, priceVars, confVars, predVars, remVars, jobVars, dailyVars, loopVars, dlVars, rivVars, timesVars, watchVars, sumVars, pubVars, pageVars, armVars>>

\* The request fails, or a row of the body cannot be read: the catch logs
\* and the cache is left as it is.
RefreshFails(p) ==
  /\ mgrPc[p] = "awaiting"
  /\ mgrPc' = [mgrPc EXCEPT ![p] = "idle"]
  /\ UNCHANGED <<MANAGER_MAP, envMap, written, mgrStarted, overlapped>>
  /\ UNCHANGED <<retryVars, renderVars, sectionVars, teamVars, matchVars, priceVars, confVars, predVars, remVars, jobVars, dailyVars, loopVars, dlVars, rivVars, timesVars, watchVars, sumVars, pubVars, pageVars, armVars>>

\* The map built by the last successful refresh.
LastWritten == written[Len(written)]

\* The writes that put something under a key.
WritesOf(key) == {i \in 1..Len(written) : key \in DOMAIN written[i]}

LastWriteOf(key) == CHOOSE i \in WritesOf(key) : \A j \in WritesOf(key) : j <= i

\* C29 (as stated): after a successful refresh MANAGER_MAP is exactly the
\* mapping built from that refresh's response: no key of an earlier value
\* survives unless the response contains it, and with two refreshes in
\* flight the final value is that of the last writer alone.
C29_ReplacesWholeValue ==
  written # <<>> => MANAGER_MAP = LastWritten

\* C29 (amended): a successful refresh lays its mapping over the cache.
\* Every key holds the value given by the last refresh whose response
\* contained it, a key no response contained keeps its start-up value, and
\* no other key exists, under every interleaving of the refreshes.
C29_OverlaysEarlierValue ==
  /\ DOMAIN MANAGER_MAP = DOMAIN envMap \cup UNION {DOMAIN written[i] : i \in 1..Len(written)}
  /\ \A key \in DOMAIN MANAGER_MAP :
       MANAGER_MAP[key] = IF WritesOf(key) = {} THEN envMap[key]
                          ELSE written[LastWriteOf(key)][key]

\* C29 witness: two refreshes were in flight together and both have
\* written; the cache holds a key of the first writer and a start-up key
\* that the last writer's response does not contain, and a key that both
\* responses contain has the last writer's value.
C29_Witness ==
  /\ Len(written) = 2
  /\ overlapped
  /\ \A p \in Refreshers : mgrPc[p] = "idle"
  /\ "dan" \in DOMAIN MANAGER_MAP \ DOMAIN LastWritten
  /\ "ann" \in DOMAIN MANAGER_MAP \ DOMAIN LastWritten
  /\ "bob" \in DOMAIN written[1] \cap DOMAIN LastWritten
  /\ written[1]["bob"] # LastWritten["bob"]
  /\ MANAGER_MAP["bob"] = BobId

(***************************************************************************)
(*                 fetchFplMundoArticle: length of the body                *)
(***************************************************************************)

\* C30: fetchFplMundoArticle never returns a draft whose extracted body text
\* is shorter than about 500 characters: when no strategy (headless render,
\* plain fetch, text proxy) yields a body of at least that length it throws
\* instead of returning.
C30_NoShortDraft ==
  fn = "fetchFplMundoArticle" /\ rOutcome.kind = "returned" => bodyLen >= MIN_BODY_LEN

\* What the code keeps of C30: a draft is never built from a page of fewer
\* than 500 characters, nor from a proxy text of 500 characters or fewer.
DraftFromLongSource ==
  fn = "fetchFplMundoArticle" /\ rOutcome.kind = "returned" =>
    IF rOutcome.by = "proxy" THEN bodyLen > MIN_BODY_LEN
    ELSE rOutcome.html.len >= MIN_BODY_LEN

(***************************************************************************)
(*       Concurrent calls of postPredictedIfChanged / postConfirmedIfChanged *)
(***************************************************************************)

MaxCalls == 3

Callers == 1..MaxCalls

\* What fetchPredictedFromLiveFPL answers the calls: one set of risers in two
\* orders and spellings, and another set.
WatchPreds ==
  { [ok |-> TRUE, risers |-> <<PredRow("Salah", "LIV", 130), PredRow("Kane", "", 110)>>,
     fallers |-> <<>>],
    [ok |-> TRUE, risers |-> <<PredRow("Kane", "", 110), PredRow(" salah ", "liv", 130)>>,
     fallers |-> <<>>],
    [ok |-> TRUE, risers |-> <<PredRow("Salah", "LIV", 131)>>, fallers |-> <<>>] }

\* What parseConfirmedTable answers the calls: one set of changes in two
\* spellings, and another set.
WatchTables ==
  { <<PriceRow("Salah", "LIV", 130, 131), PriceRow("Kane", "", 110, 109)>>,
    <<PriceRow("SALAH", "liv", 130, 131), PriceRow("Kane", "", 110, 109)>>,
    <<PriceRow("Haaland", "MCI", 140, 141)>> }

\* The signatures a call of the function can compute.
FetchedSigs(w) ==
  IF w = "predicted" THEN {PredSig(p) : p \in WatchPreds}
  ELSE {ConfSig(Classify(rs)) : rs \in WatchTables}

\* __LAST_PRED_SIG or __LAST_CONF_SIG
LastSig == IF watcher = "predicted" THEN lastPredSig ELSE lastConfSig

PredChangedMutant(sig, last) == TRUE

\* if (!sig || sig === __LAST_PRED_SIG) return;
PredChanged(sig, last) == sig # last

Changed(sig) ==
  IF watcher = "predicted" THEN PredChanged(sig, lastPredSig) ELSE ConfChanged(sig, lastConfSig)

RecordedMutant(sig, last) == last

\* __LAST_PRED_SIG = sig; (__LAST_CONF_SIG = sig;)
Recorded(sig, last) == sig

\* One comparison: the call, its signature, what the test found, and the
\* calls whose send had failed by then.
Compared(p, sig, changed) ==
  [call |-> p, sig |-> sig, changed |-> changed,
   failed |-> {q \in Callers : wOut[q] = "failed"}]

InitWatch ==
  /\ watcher \in {"predicted", "confirmed"}
  /\ wPc = [p \in Callers |-> "idle"]
  /\ wOut = [p \in Callers |-> "none"]
  /\ wLog = <<>>

IdleWatch ==
  /\ watcher = "none"
  /\ wPc = [p \in Callers |-> "idle"]
  /\ wOut = [p \in Callers |-> "none"]
  /\ wLog = <<>>

\* The function is called and awaits its fetch.
StartWatch(p) ==
  /\ watcher # "none" /\ wPc[p] = "idle"
  /\ wPc' = [wPc EXCEPT ![p] = "fetching"]
  /\ UNCHANGED <<watcher, wOut, wLog, predVars, confVars>>
  /\ UNCHANGED <<retryVars, renderVars, sectionVars, teamVars, matchVars, priceVars, remVars, jobVars, dailyVars, loopVars, dlVars, rivVars, timesVars, mgrVars, sumVars, pubVars, pageVars, armVars>>

\* The fetch rejects: the catch block logs.
WatchFetchThrows(p) ==
  /\ wPc[p] = "fetching"
  /\ wPc' = [wPc EXCEPT ![p] = "done"]
  /\ wOut' = [wOut EXCEPT ![p] = "error"]
  /\ UNCHANGED <<watcher, wLog, predVars, confVars>>
  /\ UNCHANGED <<retryVars, renderVars, sectionVars, teamVars, matchVars, priceVars, remVars, jobVars, dailyVars, loopVars, dlVars, rivVars, timesVars, mgrVars, sumVars, pubVars, pageVars, armVars>>

\* The fetch resolves: the signature is built, compared with the last one
\* and recorded, and channel.send is called, with no await in between.
WatchFetchReturns(p) ==
  /\ wPc[p] = "fetching"
  /\ \E sig \in FetchedSigs(watcher) :
       /\ wLog' = Append(wLog, Compared(p, sig, Changed(sig)))
       /\ IF Changed(sig)
          THEN /\ lastPredSig' = IF watcher = "predicted" THEN Recorded(sig, lastPredSig)
                                 ELSE lastPredSig
               /\ lastConfSig' = IF watcher = "confirmed" THEN Recorded(sig, lastConfSig)
                                 ELSE lastConfSig
               /\ wPc' = [wPc EXCEPT ![p] = "sending"]
               /\ UNCHANGED wOut
          ELSE /\ wPc' = [wPc EXCEPT ![p] = "done"]
               /\ wOut' = [wOut EXCEPT ![p] = "skipped"]
               /\ UNCHANGED <<lastPredSig, lastConfSig>>
  /\ UNCHANGED <<watcher, predPolls, pred, predSent, sigBefore>>
  /\ UNCHANGED <<confPolls, parsed, chg, confSent, prevChg, prevConfSent>>
  /\ UNCHANGED <<retryVars, renderVars, sectionVars, teamVars, matchVars, priceVars, remVars, jobVars, dailyVars, loopVars, dlVars, rivVars, timesVars, mgrVars, sumVars, pubVars, pageVars, armVars>>

\* channel.send settles: the message is delivered, or the send rejects and
\* the catch block logs.
WatchSendSettles(p) ==
  /\ wPc[p] = "sending"
  /\ \E how \in {"sent", "failed"} : wOut' = [wOut EXCEPT ![p] = how]
  /\ wPc' = [wPc EXCEPT ![p] = "done"]
  /\ UNCHANGED <<watcher, wLog, predVars, confVars>>
  /\ UNCHANGED <<retryVars, renderVars, sectionVars, teamVars, matchVars, priceVars, remVars, jobVars, dailyVars, loopVars, dlVars, rivVars, timesVars, mgrVars, sumVars, pubVars, pageVars, armVars>>

\* The comparisons that found a change (and so called channel.send).
Sending == {i \in 1..Len(wLog) : wLog[i].changed}

\* All the calls that have fetched so far fetched the same set.
SameSetFetched == \A i, j \in 1..Len(wLog) : wLog[i].sig = wLog[j].sig

LastRecorded ==
  IF Sending = {} THEN NoSig
  ELSE wLog[CHOOSE i \in Sending : \A j \in Sending : j <= i].sig

\* No call that fetched another set has recorded its signature between the
\* comparisons i and j.
NoChangeBetween(i, j) ==
  \A k \in Sending : i < k /\ k < j => wLog[k].sig = wLog[i].sig

OccurrenceDuring(i) ==
  \E t \in {lFirings[i] + k * HOUR_MS : k \in 1..25} :
    /\ t <= lSettles[i]
    /\ LocalTime(t) \div HOUR_MS = TargetTimeOfDay \div HOUR_MS
    /\ LocalTime(t - HOUR_MS) \div HOUR_MS # TargetTimeOfDay \div HOUR_MS

\* C33: for a recurring job (the loop of scheduleWeeklyInTz, scheduleDailyInTz
\* and scheduleAtLocalTimes) at every moment at most one timer is pending
\* and at most one invocation of the callback is running, and never both:
\* the next timer is armed when the running callback settles, for an instant
\* after that, so every firing comes after the settling of the one before
\* and a configured time that passes while the callback runs gets no firing.
C33_OneTimerOneCallback ==
  /\ lPending + lRunning <= 1
  /\ lpc = "armed" <=> lPending = 1
  /\ lpc = "running" <=> lRunning = 1
  /\ lpc = "armed" => lFireAt > lClock
  /\ Len(lSettles) = Len(lFirings) - lRunning
  /\ \A i \in 1..Len(lSettles) : lFirings[i] <= lSettles[i]
  /\ \A i \in 1..(Len(lFirings) - 1) : lSettles[i] < lFirings[i + 1]

\* C33 witness: the first callback ran for 25 hours, the configured time
\* came round meanwhile, and the second firing came after the settling, two
\* local days after the first.
C33_Witness ==
  /\ Len(lFirings) >= 2
  /\ lSettles[1] = lFirings[1] + 25 * HOUR_MS
  /\ OccurrenceDuring(1)
  /\ transition = "none"
  /\ LocalDay(lFirings[2]) = LocalDay(lFirings[1]) + 2

(***************************************************************************)
(*                        maybePostPrevGwSummaries                         *)
(***************************************************************************)

MaxGw == 2
MaxSummaryRuns == 3

Gameweeks == 1..MaxGw

\* const LEAGUES = (process.env.LEAGUES || "premier,championship")
LEAGUES == <<"premier", "championship">>

\* The season at an instant: the deadline of the gameweeks 1..passed is over,
\* of these 1..finished are finished, and of these 1..checked are
\* data_checked.
Seasons ==
  { [passed |-> p, finished |-> f, checked |-> c] :
      p \in 0..MaxGw, f \in 0..MaxGw, c \in 0..MaxGw }

ValidSeason(s) == s.checked <= s.finished /\ s.finished <= s.passed

\* Time only goes on.
NotBefore(s, t) ==
  s.passed >= t.passed /\ s.finished >= t.finished /\ s.checked >= t.checked

\* The event of a gameweek in the bootstrap answer.
Event(s, gw) == [id |-> gw, finished |-> gw <= s.finished, data_checked |-> gw <= s.checked]

NoEvent == [id |-> 0, finished |-> FALSE, data_checked |-> FALSE]

\* The event with the earliest deadline still ahead, or none.
Upcoming(s) == IF s.passed < MaxGw THEN Event(s, s.passed + 1) ELSE NoEvent

\* upcoming ? upcoming.id - 1 : (most recent finished event)?.id ?? null
PrevGw(s) == IF Upcoming(s) # NoEvent THEN Upcoming(s).id - 1 ELSE s.finished

\* events.find(e => e.id === prevGw)
FindEvent(s, gw) == IF gw \in Gameweeks THEN Event(s, gw) ELSE NoEvent

isEventFinalizedMutant(ev) == ev # NoEvent

\* isEventFinalized
isEventFinalized(ev) ==
  IF ev = NoEvent THEN FALSE
  ELSE ev.finished /\ (IF requireFinalized THEN ev.data_checked ELSE TRUE)

AlreadyPostedMutant(last, gw) == FALSE

\* if (__LAST_SUMMARY_POSTED_GW === prevGw) return;
AlreadyPosted(last, gw) == last = gw

NoneSent == [l \in 1..Len(LEAGUES) |-> [g \in Gameweeks |-> 0]]

InitSummary ==
  /\ requireFinalized \in BOOLEAN
  /\ lastSummaryGw = 0
  /\ gpc = "idle"
  /\ sRuns = 0
  /\ season = [passed |-> 0, finished |-> 0, checked |-> 0]
  /\ sGw = 0
  /\ sLast = 0
  /\ sLeague = 0
  /\ leagueMsgs = <<>>
  /\ summarySent = NoneSent
  /\ articles = [g \in Gameweeks |-> 0]
  /\ sLog = {}
  /\ sEnd = "none"

IdleSummary ==
  /\ requireFinalized = TRUE
  /\ lastSummaryGw = 0
  /\ gpc = "idle"
  /\ sRuns = 0
  /\ season = [passed |-> 0, finished |-> 0, checked |-> 0]
  /\ sGw = 0
  /\ sLast = 0
  /\ sLeague = 0
  /\ leagueMsgs = <<>>
  /\ summarySent = NoneSent
  /\ articles = [g \in Gameweeks |-> 0]
  /\ sLog = {}
  /\ sEnd = "none"

OtherThanSummary ==
  <<retryVars, renderVars, sectionVars, teamVars, matchVars, priceVars, confVars, predVars, remVars, jobVars, dailyVars, loopVars, dlVars, rivVars, timesVars, mgrVars, watchVars, pubVars, pageVars, armVars>>

\* The daily job calls maybePostPrevGwSummaries, which awaits the channel.
StartSummary ==
  /\ gpc = "idle"
  /\ sRuns < MaxSummaryRuns
  /\ sRuns' = sRuns + 1
  /\ gpc' = "channel"
  /\ sEnd' = "none"
  /\ UNCHANGED <<requireFinalized, lastSummaryGw, season, sGw, sLast, sLeague, leagueMsgs, summarySent, articles, sLog>>
  /\ UNCHANGED OtherThanSummary

\* client.channels.fetch settles: on an error the function logs and returns.
SummaryChannelFetched ==
  /\ gpc = "channel"
  /\ \E ok \in BOOLEAN :
       /\ gpc' = IF ok THEN "bootstrap" ELSE "idle"
       /\ sEnd' = IF ok THEN sEnd ELSE "no channel"
  /\ UNCHANGED <<requireFinalized, lastSummaryGw, sRuns, season, sGw, sLast, sLeague, leagueMsgs, summarySent, articles, sLog>>
  /\ UNCHANGED OtherThanSummary

\* The bootstrap request fails: the function logs and returns.
BootstrapFails ==
  /\ gpc = "bootstrap"
  /\ gpc' = "idle"
  /\ sEnd' = "no bootstrap"
  /\ UNCHANGED <<requireFinalized, lastSummaryGw, sRuns, season, sGw, sLast, sLeague, leagueMsgs, summarySent, articles, sLog>>
  /\ UNCHANGED OtherThanSummary

\* The bootstrap answer arrives: the target gameweek is computed, and the
\* function returns unless that gameweek exists, is finalized and is not
\* the one recorded.
BootstrapFetched ==
  /\ gpc = "bootstrap"
  /\ \E s \in Seasons :
       /\ ValidSeason(s) /\ NotBefore(s, season)
       /\ season' = s
       /\ LET prevGw == PrevGw(s)
              prevEvent == FindEvent(s, prevGw)
          IN  IF \/ prevGw <= 0
                 \/ prevEvent = NoEvent
                 \/ ~isEventFinalized(prevEvent)
                 \/ AlreadyPosted(lastSummaryGw, prevGw)
              THEN /\ gpc' = "idle"
                   /\ sEnd' = IF prevGw <= 0 \/ prevEvent = NoEvent THEN "no target"
                              ELSE IF ~isEventFinalized(prevEvent) THEN "not finalized"
                              ELSE "already posted"
                   /\ UNCHANGED <<sGw, sLast, sLeague, leagueMsgs>>
              ELSE /\ gpc' = "summarize"
                   /\ UNCHANGED sEnd
                   /\ sGw' = prevGw
                   /\ sLast' = lastSummaryGw
                   /\ sLeague' = 1
                   /\ leagueMsgs' = <<>>
  /\ UNCHANGED <<requireFinalized, lastSummaryGw, sRuns, summarySent, articles, sLog>>
  /\ UNCHANGED OtherThanSummary

\* summarizePreviousGW settles for the league of the loop: it throws (the
\* catch block logs), gives no scored fixture (return), or gives a summary.
Summarized ==
  /\ gpc = "summarize"
  /\ \E result \in {"throws", "incomplete", "enough"} :
       /\ gpc' = IF result = "enough" THEN "send" ELSE "idle"
       /\ sEnd' = IF result = "enough" THEN sEnd ELSE result
  /\ UNCHANGED <<requireFinalized, lastSummaryGw, sRuns, season, sGw, sLast, sLeague, leagueMsgs, summarySent, articles, sLog>>
  /\ UNCHANGED OtherThanSummary

Logged(what, lg) ==
  [what |-> what, league |-> lg, gw |-> sGw, event |-> FindEvent(season, sGw),
   last |-> sLast, require |-> requireFinalized]

\* channel.send settles: a delivered message is pushed on leagueMsgs and the
\* loop goes on; a failed send is caught and logged.
SummarySendSettles ==
  /\ gpc = "send"
  /\ \/ /\ summarySent' = [summarySent EXCEPT ![sLeague][sGw] = @ + 1]
        /\ sLog' = sLog \cup {Logged("message", sLeague)}
        /\ leagueMsgs' = Append(leagueMsgs, sLeague)
        /\ sLeague' = sLeague + 1
        /\ gpc' = IF sLeague < Len(LEAGUES) THEN "summarize" ELSE "publish"
        /\ UNCHANGED sEnd
     \/ /\ gpc' = "idle"
        /\ sEnd' = "send failed"
        /\ UNCHANGED <<summarySent, sLog, leagueMsgs, sLeague>>
  /\ UNCHANGED <<requireFinalized, lastSummaryGw, sRuns, season, sGw, sLast, articles>>
  /\ UNCHANGED OtherThanSummary

\* postNews settles, its error caught by .catch, and the gameweek is recorded.
SummaryPublished ==
  /\ gpc = "publish"
  /\ \/ /\ articles' = [articles EXCEPT ![sGw] = @ + 1]
        /\ sLog' = sLog \cup {Logged("article", 0)}
     \/ UNCHANGED <<articles, sLog>>
  /\ lastSummaryGw' = sGw
  /\ gpc' = "idle"
  /\ sEnd' = "recorded"
  /\ UNCHANGED <<requireFinalized, sRuns, season, sGw, sLast, sLeague, leagueMsgs, summarySent>>
  /\ UNCHANGED OtherThanSummary

\* C34: across any number of invocations of maybePostPrevGwSummaries the
\* summary message of a league and gameweek is sent at most once, also when
\* an earlier invocation sent the first league's message and then stopped.
C34_SummaryAtMostOnce ==
  \A l \in 1..Len(LEAGUES), g \in Gameweeks : summarySent[l][g] <= 1

\* What the code keeps of C34: the article of a gameweek is published at
\* most once, and a league's message is not repeated once the gameweek has
\* been recorded.
ArticleAtMostOnce == \A g \in Gameweeks : articles[g] <= 1

\* The event is finished, and data_checked while the switch is on.
Finalized(e, require) == e.finished /\ (require => e.data_checked)

\* C35: maybePostPrevGwSummaries sends no message and publishes no article
\* for a gameweek unless that gameweek's event is finished (and data_checked
\* while GW_SUMMARY_REQUIRE_FINALIZED is on), and an invocation that finds
\* its target gameweek recorded in __LAST_SUMMARY_POSTED_GW sends and
\* publishes nothing; a recorded gameweek stays recorded until a later one
\* is.
C35_OnlyFinalizedOnlyOnce ==
  /\ \A e \in sLog :
       /\ e.event # NoEvent /\ e.event.id = e.gw
       /\ Finalized(e.event, e.require)
       /\ e.last # e.gw
  /\ gpc \in {"summarize", "send", "publish"} =>
       /\ sGw \in Gameweeks
       /\ Finalized(FindEvent(season, sGw), requireFinalized)
       /\ lastSummaryGw # sGw
       /\ lastSummaryGw < sGw
  /\ lastSummaryGw # 0 => Finalized(FindEvent(season, lastSummaryGw), requireFinalized)
  /\ lastSummaryGw <= PrevGw(season)

\* C35 witness: the first invocation posted both messages and the article of
\* gameweek 1 and recorded it; a later invocation found gameweek 1 still the
\* target and returned with nothing sent; the switch is on.
C35_Witness ==
  /\ requireFinalized
  /\ lastSummaryGw = 1
  /\ PrevGw(season) = 1
  /\ sRuns = 2 /\ gpc = "idle" /\ sEnd = "already posted"
  /\ \A l \in 1..Len(LEAGUES) : summarySent[l][1] = 1
  /\ articles[1] = 1

(***************************************************************************)
(*            publishFromMundoPage and the mundo_publish command           *)
(***************************************************************************)

MaxSections == 2
MaxLinks == 2

\* if (sections.length >= 2)
MIN_SPLIT_SECTIONS == 2

\* if (!art?.markdown || art.markdown.length < 300): the drafts of this
\* model are of 300 characters or more ("art") or shorter ("short").
ArticleResults == {"art", "short", "error"}

InitPublish ==
  /\ pEntry \in {"page", "command"}
  /\ pMode \in {"split", "list", "auto"}
  /\ pDryrun \in BOOLEAN
  /\ ppc = "start"
  /\ pSections = 0
  /\ pLinks = 0
  /\ pIdx = 0
  /\ pItems = <<>>
  /\ posts = <<>>
  /\ pUsed = "none"

IdlePublish ==
  /\ pEntry = "none"
  /\ pMode = "auto"
  /\ pDryrun = FALSE
  /\ ppc = "idle"
  /\ pSections = 0
  /\ pLinks = 0
  /\ pIdx = 0
  /\ pItems = <<>>
  /\ posts = <<>>
  /\ pUsed = "none"

OtherThanPublish ==
  <<retryVars, renderVars, sectionVars, teamVars, matchVars, priceVars, confVars, predVars, remVars, jobVars, dailyVars, loopVars, dlVars, rivVars, timesVars, mgrVars, watchVars, sumVars, pageVars, armVars>>

\* The first item at or after index i for which an article was fetched
\* (0 = none): items without one are reported as failed and skipped.
NextArticle(items, i) ==
  LET S == {k \in i..Len(items) : items[k] = "art"}
  IN  IF S = {} THEN 0 ELSE CHOOSE k \in S : \A q \in S : k <= q

\* publishFromMundoPage: fetchRenderedHtml settles, and the function goes on
\* to its first await: a postNews of the split loop, a fetch of the list
\* loop, or the fetch of the page as a single article.
PageFetched ==
  /\ pEntry = "page" /\ ppc = "start"
  /\ \/ /\ ppc' = "done" /\ pUsed' = "threw"
        /\ UNCHANGED <<pSections, pLinks, pIdx>>
     \/ \E n \in 0..MaxSections, k \in 0..MaxLinks :
          /\ pSections' = IF pMode \in {"split", "auto"} THEN n ELSE 0
          /\ IF pMode \in {"split", "auto"} /\ n >= MIN_SPLIT_SECTIONS
             THEN /\ pLinks' = 0
                  /\ IF pDryrun
                     THEN ppc' = "done" /\ pUsed' = "split" /\ pIdx' = 0
                     ELSE ppc' = "splitPost" /\ pIdx' = 1 /\ UNCHANGED pUsed
             ELSE IF pMode = "split"
             THEN /\ pLinks' = 0
                  /\ ppc' = "done" /\ pUsed' = "split" /\ pIdx' = 0
             ELSE /\ pLinks' = k
                  /\ IF k > 0
                     THEN ppc' = "listFetch" /\ pIdx' = 1 /\ UNCHANGED pUsed
                     ELSE ppc' = "singleFetch" /\ pIdx' = 0 /\ UNCHANGED pUsed
  /\ UNCHANGED <<pEntry, pMode, pDryrun, pItems, posts>>
  /\ UNCHANGED OtherThanPublish

\* publishFromMundoPage: postNews of a section settles; a rejection is
\* pushed on results.
SplitPost ==
  /\ ppc = "splitPost"
  /\ posts' = Append(posts, "split")
  /\ IF pIdx < pSections
     THEN pIdx' = pIdx + 1 /\ UNCHANGED <<ppc, pUsed>>
     ELSE pIdx' = 0 /\ ppc' = "done" /\ pUsed' = "split"
  /\ UNCHANGED <<pEntry, pMode, pDryrun, pSections, pLinks, pItems>>
  /\ UNCHANGED OtherThanPublish

\* publishFromMundoPage: fetchFplMundoArticle of a link settles; after the
\* last link a dry run returns, else the posting loop starts.
ListFetch ==
  /\ ppc = "listFetch"
  /\ \E r \in {"art", "error"} : pItems' = Append(pItems, r)
  /\ IF pIdx < pLinks
     THEN pIdx' = pIdx + 1 /\ UNCHANGED <<ppc, pUsed>>
     ELSE IF pDryrun \/ NextArticle(pItems', 1) = 0
     THEN pIdx' = 0 /\ ppc' = "done" /\ pUsed' = "list"
     ELSE pIdx' = NextArticle(pItems', 1) /\ ppc' = "listPost" /\ UNCHANGED pUsed
  /\ UNCHANGED <<pEntry, pMode, pDryrun, pSections, pLinks, posts>>
  /\ UNCHANGED OtherThanPublish

\* publishFromMundoPage: postNews of a fetched article settles.
ListPost ==
  /\ ppc = "listPost"
  /\ posts' = Append(posts, "list")
  /\ IF NextArticle(pItems, pIdx + 1) # 0
     THEN pIdx' = NextArticle(pItems, pIdx + 1) /\ UNCHANGED <<ppc, pUsed>>
     ELSE pIdx' = 0 /\ ppc' = "done" /\ pUsed' = "list"
  /\ UNCHANGED <<pEntry, pMode, pDryrun, pSections, pLinks, pItems>>
  /\ UNCHANGED OtherThanPublish

\* publishFromMundoPage: fetchFplMundoArticle of the page itself settles.
SingleFetch ==
  /\ ppc = "singleFetch"
  /\ \E r \in {"art", "error"} :
       IF r = "art" /\ ~pDryrun
       THEN ppc' = "singlePost" /\ UNCHANGED pUsed
       ELSE ppc' = "done" /\ pUsed' = "single"
  /\ UNCHANGED <<pEntry, pMode, pDryrun, pSections, pLinks, pIdx, pItems, posts>>
  /\ UNCHANGED OtherThanPublish

\* publishFromMundoPage: postNews of the single article settles.
SinglePost ==
  /\ ppc = "singlePost"
  /\ posts' = Append(posts, "single")
  /\ ppc' = "done" /\ pUsed' = "single"
  /\ UNCHANGED <<pEntry, pMode, pDryrun, pSections, pLinks, pIdx, pItems>>
  /\ UNCHANGED OtherThanPublish

\* Where the command goes when publishFplMundoMulti has returned: the reply
\* of the split mode, the reply of the auto mode with two sections or more,
\* or doList().
AfterMulti(n) ==
  IF pMode = "split" \/ n >= MIN_SPLIT_SECTIONS THEN "done" ELSE "listPage"

\* mundo_publish, modes split and auto: doSplit() calls publishFplMundoMulti,
\* whose fetchRenderedHtml settles; its loop posts every section found.
MultiFetched ==
  /\ pEntry = "command" /\ ppc = "start" /\ pMode \in {"split", "auto"}
  /\ \/ /\ ppc' = "done" /\ pUsed' = "threw"
        /\ UNCHANGED <<pSections, pIdx>>
     \/ \E n \in 0..MaxSections :
          /\ pSections' = n
          /\ IF n > 0
             THEN ppc' = "multiPost" /\ pIdx' = 1 /\ UNCHANGED pUsed
             ELSE /\ ppc' = AfterMulti(n) /\ pIdx' = 0
                  /\ pUsed' = IF AfterMulti(n) = "done" THEN "split" ELSE pUsed
  /\ UNCHANGED <<pEntry, pMode, pDryrun, pLinks, pItems, posts>>
  /\ UNCHANGED OtherThanPublish

\* publishFplMundoMulti: postNews of a section settles.
MultiPost ==
  /\ ppc = "multiPost"
  /\ posts' = Append(posts, "split")
  /\ IF pIdx < pSections
     THEN pIdx' = pIdx + 1 /\ UNCHANGED <<ppc, pUsed>>
     ELSE /\ pIdx' = 0
          /\ ppc' = AfterMulti(pSections)
          /\ pUsed' = IF AfterMulti(pSections) = "done" THEN "split" ELSE pUsed
  /\ UNCHANGED <<pEntry, pMode, pDryrun, pSections, pLinks, pItems>>
  /\ UNCHANGED OtherThanPublish

\* mundo_publish, mode list or the fallback of auto: doList() calls
\* publishFplMundoFromList, whose fetchRenderedHtml settles.
ListPageFetched ==
  /\ pEntry = "command"
  /\ (ppc = "start" /\ pMode = "list") \/ ppc = "listPage"
  /\ \/ /\ ppc' = "done" /\ pUsed' = "threw"
        /\ UNCHANGED <<pLinks, pIdx>>
     \/ \E k \in 0..MaxLinks :
          /\ pLinks' = k
          /\ IF k > 0
             THEN ppc' = "fromList" /\ pIdx' = 1 /\ UNCHANGED pUsed
             ELSE ppc' = "done" /\ pIdx' = 0 /\ pUsed' = "no-links"
  /\ UNCHANGED <<pEntry, pMode, pDryrun, pSections, pItems, posts>>
  /\ UNCHANGED OtherThanPublish

\* Where publishFplMundoFromList goes after the link of index pIdx.
AfterLink == IF pIdx < pLinks THEN "fromList" ELSE "done"

\* publishFplMundoFromList: fetchFplMundoArticle of a link settles; an error,
\* a short draft and a dry run go on to the next link.
FromListFetch ==
  /\ ppc = "fromList"
  /\ \E r \in ArticleResults :
       /\ pItems' = Append(pItems, r)
       /\ IF r = "art" /\ ~pDryrun
          THEN ppc' = "fromListPost" /\ UNCHANGED <<pIdx, pUsed>>
          ELSE /\ ppc' = AfterLink
               /\ pIdx' = IF pIdx < pLinks THEN pIdx + 1 ELSE 0
               /\ pUsed' = IF AfterLink = "done" THEN "list" ELSE pUsed
  /\ UNCHANGED <<pEntry, pMode, pDryrun, pSections, pLinks, posts>>
  /\ UNCHANGED OtherThanPublish

\* publishFplMundoFromList: postNews of the article settles (and the pause).
FromListPost ==
  /\ ppc = "fromListPost"
  /\ posts' = Append(posts, "list")
  /\ ppc' = AfterLink
  /\ pIdx' = IF pIdx < pLinks THEN pIdx + 1 ELSE 0
  /\ pUsed' = IF AfterLink = "done" THEN "list" ELSE pUsed
  /\ UNCHANGED <<pEntry, pMode, pDryrun, pSections, pLinks, pItems>>
  /\ UNCHANGED OtherThanPublish

Posted(via) == \E i \in 1..Len(posts) : posts[i] = via

\* C36: with dryrun set, publishing never reaches the backend:
\* publishFromMundoPage, publishFplMundoFromList and the mundo_publish
\* command make no postNews call in any mode when dryrun is true.
C36_DryrunNeverPosts == pDryrun => posts = <<>>

\* What the code keeps of C36: publishFromMundoPage and
\* publishFplMundoFromList make no postNews call on a dry run.
DryrunHonouredOutsideSplit ==
  pDryrun => /\ ~Posted("list") /\ ~Posted("single")
             /\ pEntry = "page" => posts = <<>>

\* C37: in auto mode a page is published through exactly one strategy: the
\* split sections are posted only when at least 2 sections were found, and
\* when the call falls back to list (or single) mode nothing from the split
\* attempt has been posted.
C37_OneStrategyInAuto ==
  pMode = "auto" =>
    /\ Posted("split") => pSections >= MIN_SPLIT_SECTIONS
    /\ ~(Posted("split") /\ ppc \in {"listPage", "fromList", "fromListPost", "listFetch",
                                    "listPost", "singleFetch", "singlePost"})
    /\ Cardinality({posts[i] : i \in 1..Len(posts)}) <= 1

\* What the code keeps of C37: publishFromMundoPage.
OneStrategyInPage ==
  pEntry = "page" =>
    /\ Posted("split") => pSections >= MIN_SPLIT_SECTIONS
    /\ Cardinality({posts[i] : i \in 1..Len(posts)}) <= 1

(***************************************************************************)
(*                            Pagination loops                             *)
(***************************************************************************)

\* if (page > 50) break; // safety
PAGE_CAP == 50

\* The loop of fetchFplH2HStandingsAllPages has no cap: its counters are
\* kept exactly up to this value, which then stands for "this or more".
MaxPagesCounted == 4

Counter(n) == IF pgFn = "fetchFixtures" THEN n ELSE IF n > MaxPagesCounted THEN MaxPagesCounted ELSE n

InitPages ==
  /\ pgFn \in {"fetchFixtures", "fetchFplH2HStandingsAllPages"}
  /\ pgPc = "loop"
  /\ pgPage = 1
  /\ pgRequests = 0
  /\ pgOdd = FALSE

IdlePages ==
  /\ pgFn = "none"
  /\ pgPc = "idle"
  /\ pgPage = 1
  /\ pgRequests = 0
  /\ pgOdd = FALSE

OtherThanPages ==
  <<retryVars, renderVars, sectionVars, teamVars, matchVars, priceVars, confVars, predVars, remVars, jobVars, dailyVars, loopVars, dlVars, rivVars, timesVars, mgrVars, watchVars, sumVars, pubVars, armVars>>

\* The FPL fallback of fetchFixtures: a page is answered; the loop breaks
\* when the answer reports no next page, or when page exceeds 50.
FixturesPageAnswered ==
  /\ pgFn = "fetchFixtures" /\ pgPc = "loop"
  /\ pgRequests' = pgRequests + 1
  /\ pgOdd' = ~pgOdd
  /\ \E hasNext \in BOOLEAN :
       IF ~hasNext
       THEN pgPc' = "done" /\ UNCHANGED pgPage
       ELSE /\ pgPage' = pgPage + 1
            /\ pgPc' = IF pgPage' > PAGE_CAP THEN "done" ELSE "loop"
  /\ UNCHANGED pgFn
  /\ UNCHANGED OtherThanPages

\* fetchFplH2HStandingsAllPages: a page is answered; while (hasNext) goes on
\* as long as the answer reports a next page.
StandingsPageAnswered ==
  /\ pgFn = "fetchFplH2HStandingsAllPages" /\ pgPc = "loop"
  /\ pgRequests' = Counter(pgRequests + 1)
  /\ pgOdd' = ~pgOdd
  /\ pgPage' = Counter(pgPage + 1)
  /\ \E hasNext \in BOOLEAN : pgPc' = IF hasNext THEN "loop" ELSE "done"
  /\ UNCHANGED pgFn
  /\ UNCHANGED OtherThanPages

\* The request of a page fails: fetchFixtures catches, logs and returns [],
\* fetchFplH2HStandingsAllPages rejects.
PageRequestFails ==
  /\ pgPc = "loop"
  /\ pgRequests' = Counter(pgRequests + 1)
  /\ pgOdd' = ~pgOdd
  /\ pgPc' = "done"
  /\ UNCHANGED <<pgFn, pgPage>>
  /\ UNCHANGED OtherThanPages

\* C38: every pagination loop terminates whatever the server answers: the
\* FPL fallback of fetchFixtures requests at most 50 pages per call, and
\* fetchFplH2HStandingsAllPages stops after finitely many requests even if
\* every page reports has_next = true.
C38_PaginationTerminates ==
  /\ [](pgFn = "fetchFixtures" => pgRequests <= PAGE_CAP)
  /\ (pgFn # "none" => <>(pgPc = "done"))

\* What the code keeps of C38: the loop of fetchFixtures requests at most 50
\* pages and ends.
FixturesLoopEnds ==
  /\ [](pgFn = "fetchFixtures" => pgRequests <= PAGE_CAP /\ pgPage <= PAGE_CAP + 1)
  /\ (pgFn = "fetchFixtures" => <>(pgPc = "done"))

(***************************************************************************)
(*            scheduleDeadlineReminders from gameweek to gameweek          *)
(***************************************************************************)

MaxArmRuns == 3

\* The deadlines of the events of bootstrap-static, in whole seconds; they
\* do not change between runs.
DEADLINES == <<31 * DAY, 38 * DAY>>

\* Date.now() when the process starts.
StartClocks == {0, 27 * DAY, 31 * DAY - 12 * HOUR, 31 * DAY - 90 * 60, 31 * DAY - 30 * 60}

\* How long an await of the run takes.
AwaitDurations == {0, 1, HOUR}

\* 60 * 1000 milliseconds.
REARM_MARGIN == 60

\* getNextFplEvent: the event with the earliest deadline after now, 0 for null.
getNextFplEvent(now) ==
  IF \E g \in 1..Len(DEADLINES) : DEADLINES[g] > now
  THEN CHOOSE g \in 1..Len(DEADLINES) :
         /\ DEADLINES[g] > now
         /\ \A h \in 1..Len(DEADLINES) : DEADLINES[h] > now => DEADLINES[g] <= DEADLINES[h]
  ELSE 0

ArmedTimer(kind, gw, now, s) ==
  [kind |-> kind, gw |-> gw, setAt |-> now, fireAt |-> now + setTimeoutDelay(s),
   state |-> "armed", firedAt |-> 0]

\* scheduleAt(when, label): a timer, unless when is not after Date.now().
scheduleAt(ts, kind, gw, when, now) ==
  IF when - now <= 0 THEN ts ELSE Append(ts, ArmedTimer(kind, gw, now, when - now))

\* Math.max(deadline.getTime() - Date.now() + 60 * 1000, 60 * 60 * 1000)
reschedMs(deadline, now) == Max(deadline - now + REARM_MARGIN, HOUR)

\* The end of a run: the T-1h reminder and the re-arm timer.
Rearmed(ts, gw, now) ==
  Append(scheduleAt(ts, "1-hour", gw, DEADLINES[gw] - HOUR, now),
         ArmedTimer("rearm", gw, now, reschedMs(DEADLINES[gw], now)))

\* clearReminders()
ClearedTimers(ts) ==
  [i \in 1..Len(ts) |-> IF ts[i].state = "armed" THEN [ts[i] EXCEPT !.state = "cleared"] ELSE ts[i]]

InitArm ==
  /\ aClock \in StartClocks
  /\ aPc = "fetching"
  /\ aRuns = 1
  /\ aEv = 0
  /\ aTimers = <<>>
  /\ aSent = <<>>
  /\ aSelected = <<>>

IdleArm ==
  /\ aClock = 0
  /\ aPc = "ended"
  /\ aRuns = 0
  /\ aEv = 0
  /\ aTimers = <<>>
  /\ aSent = <<>>
  /\ aSelected = <<>>

OtherThanArm ==
  <<retryVars, renderVars, sectionVars, teamVars, matchVars, priceVars, confVars, predVars, remVars, jobVars, dailyVars, loopVars, dlVars, rivVars, timesVars, mgrVars, watchVars, sumVars, pubVars, pageVars>>

\* The channel cannot be fetched, or getNextFplEvent rejects: the run ends
\* before clearReminders and arms nothing.
ArmRunFails ==
  /\ aPc = "fetching"
  /\ \E d \in AwaitDurations : aClock' = aClock + d
  /\ aPc' = "idle"
  /\ UNCHANGED <<aRuns, aEv, aTimers, aSent, aSelected>>
  /\ UNCHANGED OtherThanArm

\* The channel and the next event are fetched; clearReminders; the T-24h
\* reminder is scheduled; inside the 24-hour window the catch-up previews
\* are awaited, otherwise the run goes on to its end.
ArmEventFetched ==
  /\ aPc = "fetching"
  /\ \E d \in AwaitDurations :
       LET now == aClock + d
           ev  == getNextFplEvent(now)
       IN  /\ aClock' = now
           /\ IF ev = 0
              THEN /\ aPc' = "idle"
                   /\ UNCHANGED <<aEv, aTimers, aSelected>>
              ELSE LET deadline == DEADLINES[ev]
                       first    == scheduleAt(ClearedTimers(aTimers), "24-hour", ev, deadline - DAY, now)
                   IN  /\ aEv' = ev
                       /\ aSelected' = Append(aSelected, ev)
                       /\ IF now > deadline - DAY /\ now < deadline - HOUR
                          THEN aPc' = "catchup" /\ aTimers' = first
                          ELSE aPc' = "idle" /\ aTimers' = Rearmed(first, ev, now)
  /\ UNCHANGED <<aRuns, aSent>>
  /\ UNCHANGED OtherThanArm

\* The catch-up previews are over: the T-1h reminder and the re-arm timer.
ArmCatchupDone ==
  /\ aPc = "catchup"
  /\ \E d \in AwaitDurations :
       /\ aClock' = aClock + d
       /\ aTimers' = Rearmed(aTimers, aEv, aClock + d)
  /\ aPc' = "idle"
  /\ UNCHANGED <<aRuns, aEv, aSent, aSelected>>
  /\ UNCHANGED OtherThanArm

\* Timers fire in the order of their times, and of their arming for equal times.
Due(i) ==
  /\ aTimers[i].state = "armed"
  /\ aTimers[i].fireAt <= aClock
  /\ \A k \in 1..Len(aTimers) :
       aTimers[k].state = "armed" /\ k # i =>
         \/ aTimers[k].fireAt > aTimers[i].fireAt
         \/ aTimers[k].fireAt = aTimers[i].fireAt /\ k > i

\* Nothing runs until the next timer is due.
ArmTimePasses ==
  /\ aPc = "idle"
  /\ \E i \in 1..Len(aTimers) : aTimers[i].state = "armed"
  /\ \A i \in 1..Len(aTimers) : aTimers[i].state = "armed" => aTimers[i].fireAt > aClock
  /\ \E i \in 1..Len(aTimers) :
       /\ aTimers[i].state = "armed"
       /\ \A k \in 1..Len(aTimers) : aTimers[k].state = "armed" => aTimers[i].fireAt <= aTimers[k].fireAt
       /\ aClock' = aTimers[i].fireAt
  /\ UNCHANGED <<aPc, aRuns, aEv, aTimers, aSent, aSelected>>
  /\ UNCHANGED OtherThanArm

\* The timer of a reminder fires: the reminder is sent.
ArmReminderFires ==
  /\ \E i \in 1..Len(aTimers) :
       /\ Due(i)
       /\ aTimers[i].kind # "rearm"
       /\ aTimers' = [aTimers EXCEPT ![i] = [@ EXCEPT !.state = "fired", !.firedAt = aClock]]
       /\ aSent' = Append(aSent, [gw |-> aTimers[i].gw, label |-> aTimers[i].kind, at |-> aClock])
  /\ UNCHANGED <<aClock, aPc, aRuns, aEv, aSelected>>
  /\ UNCHANGED OtherThanArm

\* The re-arm timer fires: scheduleDeadlineReminders runs again.
ArmRearmFires ==
  /\ aRuns < MaxArmRuns
  /\ \E i \in 1..Len(aTimers) :
       /\ Due(i)
       /\ aTimers[i].kind = "rearm"
       /\ aTimers' = [aTimers EXCEPT ![i] = [@ EXCEPT !.state = "fired", !.firedAt = aClock]]
  /\ aPc' = "fetching"
  /\ aRuns' = aRuns + 1
  /\ UNCHANGED <<aClock, aEv, aSent, aSelected>>
  /\ UNCHANGED OtherThanArm

\* A run is started only between runs, and no timer is pending while a run
\* awaits.
OneRunAtATime ==
  /\ (\E i \in 1..Len(aTimers) : aTimers[i].state = "armed" /\ aTimers[i].kind = "rearm") => aPc = "idle"
  /\ aPc = "fetching" => \A i \in 1..Len(aTimers) : aTimers[i].state # "armed"

SentOf(gw, label) == {k \in 1..Len(aSent) : aSent[k].gw = gw /\ aSent[k].label = label}

\* The re-arm timer fires no earlier than 60 seconds after the deadline of
\* its event and no earlier than 1 hour after it was set.
RearmNotEarly ==
  \A i \in 1..Len(aTimers) :
    aTimers[i].kind = "rearm" /\ aTimers[i].state = "fired" =>
      /\ aTimers[i].firedAt >= DEADLINES[aTimers[i].gw] + REARM_MARGIN
      /\ aTimers[i].firedAt >= aTimers[i].setAt + HOUR

\* Each run selects an event with a strictly later deadline than the run before.
LaterEachRun ==
  \A k \in 1..Len(aSelected) - 1 : DEADLINES[aSelected[k + 1]] > DEADLINES[aSelected[k]]

\* The two reminders of a gameweek are each sent at most once, T-24h first.
RemindersOnceInOrder ==
  \A gw \in 1..Len(DEADLINES) :
    /\ Cardinality(SentOf(gw, "24-hour")) <= 1
    /\ Cardinality(SentOf(gw, "1-hour")) <= 1
    /\ \A j \in SentOf(gw, "24-hour"), k \in SentOf(gw, "1-hour") : j < k

\* C39: with deadlines that do not change between runs, the re-arm timer
\* set by scheduleDeadlineReminders fires no earlier than 60 seconds after
\* its event's deadline and no earlier than 1 hour after it was set, so the
\* following run selects an event with a strictly later deadline; the T-24h
\* and the T-1h reminder of a gameweek are each sent at most once, and the
\* T-24h reminder before the T-1h reminder.
C39_RearmAfterDeadline == RearmNotEarly /\ LaterEachRun /\ RemindersOnceInOrder

\* No timer was armed with a delay above the largest one setTimeout accepts.
WithinTimeoutRange ==
  \A i \in 1..Len(aTimers) : aTimers[i].fireAt > aTimers[i].setAt

\* What the code keeps of C39: the claim, while every delay is one that
\* setTimeout accepts.
RearmAfterDeadlineInRange == WithinTimeoutRange => C39_RearmAfterDeadline

(***************************************************************************)
(*                           Specifications                                *)
(***************************************************************************)

\* One call of getWithRetries.
Init == InitRetry /\ IdleRender /\ IdleSections /\ IdleTeams /\ IdleMatch /\ IdlePrice /\ IdleConf /\ IdlePred /\ IdleRem /\ IdleJob /\ IdleDaily /\ IdleLoop /\ IdleDeadline /\ IdleRivalry /\ IdleTimes /\ IdleManagers /\ IdleWatch /\ IdleSummary /\ IdlePublish /\ IdlePages /\ IdleArm

Next == Call \/ GetOk \/ GetFail \/ Wake

Spec == Init /\ [][Next]_vars

\* One call of fetchRenderedHtml or of fetchFplMundoArticle.
InitRenderSpec == InitRender /\ IdleRetry /\ IdleSections /\ IdleTeams /\ IdleMatch /\ IdlePrice /\ IdleConf /\ IdlePred /\ IdleRem /\ IdleJob /\ IdleDaily /\ IdleLoop /\ IdleDeadline /\ IdleRivalry /\ IdleTimes /\ IdleManagers /\ IdleWatch /\ IdleSummary /\ IdlePublish /\ IdlePages /\ IdleArm

NextRender ==
  \/ FrhPlain \/ FrhHeadless \/ FrhProxy
  \/ MundoHeadless \/ MundoPlain \/ MundoProxy \/ MundoParse

SpecRender == InitRenderSpec /\ [][NextRender]_vars

\* One call of extractSectionsFromHtml.
InitSectionsSpec == InitSections /\ IdleRetry /\ IdleRender /\ IdleTeams /\ IdleMatch /\ IdlePrice /\ IdleConf /\ IdlePred /\ IdleRem /\ IdleJob /\ IdleDaily /\ IdleLoop /\ IdleDeadline /\ IdleRivalry /\ IdleTimes /\ IdleManagers /\ IdleWatch /\ IdleSummary /\ IdlePublish /\ IdlePages /\ IdleArm

NextSections == ExtractSections

SpecSections == InitSectionsSpec /\ [][NextSections]_vars

\* normalizeTeams on a raw table, and once more on its own output.
InitTeamsSpec == InitTeams /\ IdleRetry /\ IdleRender /\ IdleSections /\ IdleMatch /\ IdlePrice /\ IdleConf /\ IdlePred /\ IdleRem /\ IdleJob /\ IdleDaily /\ IdleLoop /\ IdleDeadline /\ IdleRivalry /\ IdleTimes /\ IdleManagers /\ IdleWatch /\ IdleSummary /\ IdlePublish /\ IdlePages /\ IdleArm

NextTeams == Normalize \/ NormalizeAgain

SpecTeams == InitTeamsSpec /\ [][NextTeams]_vars

\* One call of selectDramaticMatchups.
InitMatchSpec == InitMatch /\ IdleRetry /\ IdleRender /\ IdleSections /\ IdleTeams /\ IdlePrice /\ IdleConf /\ IdlePred /\ IdleRem /\ IdleJob /\ IdleDaily /\ IdleLoop /\ IdleDeadline /\ IdleRivalry /\ IdleTimes /\ IdleManagers /\ IdleWatch /\ IdleSummary /\ IdlePublish /\ IdlePages /\ IdleArm

NextMatch == SelectMatchups

SpecMatch == InitMatchSpec /\ [][NextMatch]_vars

\* One call of toPriceFloat or of parseNumberLikePrice.
InitPriceSpec ==
  InitPrice /\ IdleRetry /\ IdleRender /\ IdleSections /\ IdleTeams /\ IdleMatch /\ IdleConf /\ IdlePred /\ IdleRem /\ IdleJob /\ IdleDaily /\ IdleLoop /\ IdleDeadline /\ IdleRivalry /\ IdleTimes /\ IdleManagers /\ IdleWatch /\ IdleSummary /\ IdlePublish /\ IdlePages /\ IdleArm

NextPrice == CallToPriceFloat \/ CallParseNumberLikePrice

SpecPrice == InitPriceSpec /\ [][NextPrice]_vars

\* The calls of postConfirmedIfChanged.
InitConfSpec == InitConf /\ IdleRetry /\ IdleRender /\ IdleSections /\ IdleTeams /\ IdleMatch /\ IdlePrice /\ IdlePred /\ IdleRem /\ IdleJob /\ IdleDaily /\ IdleLoop /\ IdleDeadline /\ IdleRivalry /\ IdleTimes /\ IdleManagers /\ IdleWatch /\ IdleSummary /\ IdlePublish /\ IdlePages /\ IdleArm

NextConf == PollConfirmed \/ PollConfirmedFails

SpecConf == InitConfSpec /\ [][NextConf]_vars

\* The calls of postPredictedIfChanged.
InitPredSpec == InitPred /\ IdleRetry /\ IdleRender /\ IdleSections /\ IdleTeams /\ IdleMatch /\ IdlePrice /\ IdleConf /\ IdleRem /\ IdleJob /\ IdleDaily /\ IdleLoop /\ IdleDeadline /\ IdleRivalry /\ IdleTimes /\ IdleManagers /\ IdleWatch /\ IdleSummary /\ IdlePublish /\ IdlePages /\ IdleArm

NextPred == PollPredicted \/ PollPredictedFails

SpecPred == InitPredSpec /\ [][NextPred]_vars

\* The deadline reminders: scheduleAt, clearReminders, the timers and the clock.
InitRemSpec == InitRem /\ IdleRetry /\ IdleRender /\ IdleSections /\ IdleTeams /\ IdleMatch /\ IdlePrice /\ IdleConf /\ IdlePred /\ IdleJob /\ IdleDaily /\ IdleLoop /\ IdleDeadline /\ IdleRivalry /\ IdleTimes /\ IdleManagers /\ IdleWatch /\ IdleSummary /\ IdlePublish /\ IdlePages /\ IdleArm

NextRem == Tick \/ ClearReminders \/ ScheduleAt \/ TimerFires

SpecRem == InitRemSpec /\ [][NextRem]_vars

\* A recurring job.  Fairness: a timer that is armed elapses (the delay is
\* finite and the process keeps running), and an awaited callback settles.
InitJobSpec == InitJob /\ IdleRetry /\ IdleRender /\ IdleSections /\ IdleTeams /\ IdleMatch /\ IdlePrice /\ IdleConf /\ IdlePred /\ IdleRem /\ IdleDaily /\ IdleLoop /\ IdleDeadline /\ IdleRivalry /\ IdleTimes /\ IdleManagers /\ IdleWatch /\ IdleSummary /\ IdlePublish /\ IdlePages /\ IdleArm

NextJob == StartJob \/ TimerElapses \/ CallbackResolves \/ CallbackThrows

SpecJobFair ==
  /\ InitJobSpec
  /\ [][NextJob]_vars
  /\ WF_vars(StartJob)
  /\ WF_vars(TimerElapses)
  /\ WF_vars(CallbackResolves \/ CallbackThrows)

\* One call of msUntilNextDaily.
InitDailySpec == InitDaily /\ IdleRetry /\ IdleRender /\ IdleSections /\ IdleTeams /\ IdleMatch /\ IdlePrice /\ IdleConf /\ IdlePred /\ IdleRem /\ IdleJob /\ IdleLoop /\ IdleDeadline /\ IdleRivalry /\ IdleTimes /\ IdleManagers /\ IdleWatch /\ IdleSummary /\ IdlePublish /\ IdlePages /\ IdleArm

NextDaily == CallMsUntilNextDaily

SpecDaily == InitDailySpec /\ [][NextDaily]_vars

\* The daily job over the days modelled.
InitLoopSpec == InitDaily /\ InitLoop /\ IdleRetry /\ IdleRender /\ IdleSections /\ IdleTeams /\ IdleMatch /\ IdlePrice /\ IdleConf /\ IdlePred /\ IdleRem /\ IdleJob /\ IdleDeadline /\ IdleRivalry /\ IdleTimes /\ IdleManagers /\ IdleWatch /\ IdleSummary /\ IdlePublish /\ IdlePages /\ IdleArm

NextLoop == StartDaily \/ DailyTimerFires \/ DailySettles

SpecLoop == InitLoopSpec /\ [][NextLoop]_vars

\* The daily job with callbacks that may outlast a day.
InitOverrunSpec == InitDaily /\ InitOverrun /\ IdleRetry /\ IdleRender /\ IdleSections /\ IdleTeams /\ IdleMatch /\ IdlePrice /\ IdleConf /\ IdlePred /\ IdleRem /\ IdleJob /\ IdleDeadline /\ IdleRivalry /\ IdleTimes /\ IdleManagers /\ IdleWatch /\ IdleSummary /\ IdlePublish /\ IdlePages /\ IdleArm

SpecOverrun == InitOverrunSpec /\ [][NextLoop]_vars

\* The deadline-reminder job.
InitDeadlineSpec == InitDeadline /\ IdleRetry /\ IdleRender /\ IdleSections /\ IdleTeams /\ IdleMatch /\ IdlePrice /\ IdleConf /\ IdlePred /\ IdleRem /\ IdleJob /\ IdleDaily /\ IdleLoop /\ IdleRivalry /\ IdleTimes /\ IdleManagers /\ IdleWatch /\ IdleSummary /\ IdlePublish /\ IdlePages /\ IdleArm

NextDeadline ==
  Boot \/ RearmFires \/ ChannelFetched \/ EventFetched \/ CatchUpDone \/ ReminderFires \/ ReminderDone

SpecDeadline == InitDeadlineSpec /\ [][NextDeadline]_vars

\* One pair of calls of rivalryMatches.
InitRivalrySpec == InitRivalry /\ IdleRetry /\ IdleRender /\ IdleSections /\ IdleTeams /\ IdleMatch /\ IdlePrice /\ IdleConf /\ IdlePred /\ IdleRem /\ IdleJob /\ IdleDaily /\ IdleLoop /\ IdleDeadline /\ IdleTimes /\ IdleManagers /\ IdleWatch /\ IdleSummary /\ IdlePublish /\ IdlePages /\ IdleArm

NextRivalry == CallRivalryMatches

SpecRivalry == InitRivalrySpec /\ [][NextRivalry]_vars

\* One call of msUntilNext of scheduleAtLocalTimes.
InitTimesSpec == InitTimes /\ IdleRetry /\ IdleRender /\ IdleSections /\ IdleTeams /\ IdleMatch /\ IdlePrice /\ IdleConf /\ IdlePred /\ IdleRem /\ IdleJob /\ IdleDaily /\ IdleLoop /\ IdleDeadline /\ IdleRivalry /\ IdleManagers /\ IdleWatch /\ IdleSummary /\ IdlePublish /\ IdlePages /\ IdleArm

NextTimes == CallMsUntilNext

SpecTimes == InitTimesSpec /\ [][NextTimes]_vars

\* Refreshes of the manager map, up to two in flight.
InitManagersSpec == InitManagers /\ IdleRetry /\ IdleRender /\ IdleSections /\ IdleTeams /\ IdleMatch /\ IdlePrice /\ IdleConf /\ IdlePred /\ IdleRem /\ IdleJob /\ IdleDaily /\ IdleLoop /\ IdleDeadline /\ IdleRivalry /\ IdleTimes /\ IdleWatch /\ IdleSummary /\ IdlePublish /\ IdlePages /\ IdleArm

NextManagers ==
  \E p \in Refreshers : StartRefresh(p) \/ RefreshSucceeds(p) \/ RefreshFails(p)

SpecManagers == InitManagersSpec /\ [][NextManagers]_vars

\* Calls of one price poller that overlap at their awaits.
InitWatchSpec == InitWatch /\ IdleRetry /\ IdleRender /\ IdleSections /\ IdleTeams /\ IdleMatch /\ IdlePrice /\ IdleConf /\ IdlePred /\ IdleRem /\ IdleJob /\ IdleDaily /\ IdleLoop /\ IdleDeadline /\ IdleRivalry /\ IdleTimes /\ IdleManagers /\ IdleSummary /\ IdlePublish /\ IdlePages /\ IdleArm

NextWatch ==
  \E p \in Callers :
    StartWatch(p) \/ WatchFetchThrows(p) \/ WatchFetchReturns(p) \/ WatchSendSettles(p)

SpecWatch == InitWatchSpec /\ [][NextWatch]_vars

\* The invocations of maybePostPrevGwSummaries by its daily job.
InitSummarySpec == InitSummary /\ IdleRetry /\ IdleRender /\ IdleSections /\ IdleTeams /\ IdleMatch /\ IdlePrice /\ IdleConf /\ IdlePred /\ IdleRem /\ IdleJob /\ IdleDaily /\ IdleLoop /\ IdleDeadline /\ IdleRivalry /\ IdleTimes /\ IdleManagers /\ IdleWatch /\ IdlePublish /\ IdlePages /\ IdleArm

NextSummary ==
  \/ StartSummary \/ SummaryChannelFetched \/ BootstrapFails \/ BootstrapFetched
  \/ Summarized \/ SummarySendSettles \/ SummaryPublished

SpecSummary == InitSummarySpec /\ [][NextSummary]_vars

\* One call of publishFromMundoPage, or one mundo_publish command.
InitPublishSpec == InitPublish /\ IdleRetry /\ IdleRender /\ IdleSections /\ IdleTeams /\ IdleMatch /\ IdlePrice /\ IdleConf /\ IdlePred /\ IdleRem /\ IdleJob /\ IdleDaily /\ IdleLoop /\ IdleDeadline /\ IdleRivalry /\ IdleTimes /\ IdleManagers /\ IdleWatch /\ IdleSummary /\ IdlePages /\ IdleArm

NextPublish ==
  \/ PageFetched \/ SplitPost \/ ListFetch \/ ListPost \/ SingleFetch \/ SinglePost
  \/ MultiFetched \/ MultiPost \/ ListPageFetched \/ FromListFetch \/ FromListPost

SpecPublish == InitPublishSpec /\ [][NextPublish]_vars

\* One call of a paginated fetch; every request is answered or fails.
InitPagesSpec == InitPages /\ IdleRetry /\ IdleRender /\ IdleSections /\ IdleTeams /\ IdleMatch /\ IdlePrice /\ IdleConf /\ IdlePred /\ IdleRem /\ IdleJob /\ IdleDaily /\ IdleLoop /\ IdleDeadline /\ IdleRivalry /\ IdleTimes /\ IdleManagers /\ IdleWatch /\ IdleSummary /\ IdlePublish /\ IdleArm

NextPages == FixturesPageAnswered \/ StandingsPageAnswered \/ PageRequestFails

SpecPagesFair == InitPagesSpec /\ [][NextPages]_vars /\ WF_vars(NextPages)

\* scheduleDeadlineReminders from the start of the process on, re-armed by
\* its own timer.
InitArmSpec == InitArm /\ IdleRetry /\ IdleRender /\ IdleSections /\ IdleTeams /\ IdleMatch /\ IdlePrice /\ IdleConf /\ IdlePred /\ IdleRem /\ IdleJob /\ IdleDaily /\ IdleLoop /\ IdleDeadline /\ IdleRivalry /\ IdleTimes /\ IdleManagers /\ IdleWatch /\ IdleSummary /\ IdlePublish /\ IdlePages

NextArm == ArmRunFails \/ ArmEventFetched \/ ArmCatchupDone \/ ArmTimePasses \/ ArmReminderFires \/ ArmRearmFires

SpecArm == InitArmSpec /\ [][NextArm]_vars

====
